---- MODULE Spec2Model ----
(***************************************************************************)
(* State-machine model of the committee patient-tracking application       *)
(* (src/app.py, src/reminders.py): review requests, control reminders and  *)
(* screening follow-ups, the patient register and its form, the screening  *)
(* page, the set-up made before the first request, the daily reminders.    *)
(*                                                                         *)
(* Text that the program parses or encodes (form values, the JSON text of  *)
(* ReviewRequest.recipients) is a sequence of one-character strings, so    *)
(* that int(), str(), json.dumps and json.loads are computed, not assumed. *)
(* Opaque text (e-mail addresses, status names) is a TLA+ string.          *)
(***************************************************************************)
EXTENDS Integers, Sequences, FiniteSets, TLC

\* ------------------------------------------------------------------------
\* Bounds of the model
\* ------------------------------------------------------------------------
NUsers == 3
MaxReviews == 1
MaxStudies == 1
MaxConsultations == 1
MaxComments == 1
MaxControls == 1
MaxFollowups == 1
MaxClock == 2
MaxPatients == 2
NThreads == 2
MaxStudyRows == 2
NSessions == 2

\* None of Python / NULL of SQL
NULL == 0

Users == 1..NUsers

\* ------------------------------------------------------------------------
\* Generic sequence helpers
\* ------------------------------------------------------------------------
Range(s) == {s[i] : i \in DOMAIN s}

NoDup(s) == \A i, j \in DOMAIN s : i # j => s[i] # s[j]

RECURSIVE Join(_, _)
\* sep.join(parts) for sequences of characters
Join(parts, sep) ==
    IF parts = <<>> THEN <<>>
    ELSE IF Len(parts) = 1 THEN parts[1]
    ELSE parts[1] \o sep \o Join(Tail(parts), sep)

\* ------------------------------------------------------------------------
\* Python str / int conversions (characters are one-character strings)
\* ------------------------------------------------------------------------
DigitChars == <<"0", "1", "2", "3", "4", "5", "6", "7", "8", "9">>

IsDigit(c) == \E i \in DOMAIN DigitChars : DigitChars[i] = c

DigitVal(c) == (CHOOSE i \in DOMAIN DigitChars : DigitChars[i] = c) - 1

RECURSIVE LStrip(_)
LStrip(s) == IF s # <<>> /\ Head(s) = " " THEN LStrip(Tail(s)) ELSE s

RECURSIVE RStrip(_)
RStrip(s) == IF s # <<>> /\ s[Len(s)] = " " THEN RStrip(SubSeq(s, 1, Len(s) - 1)) ELSE s

\* str.strip()
Strip(s) == RStrip(LStrip(s))

RECURSIVE DigitsValue(_, _)
DigitsValue(s, acc) ==
    IF s = <<>> THEN acc ELSE DigitsValue(Tail(s), acc * 10 + DigitVal(Head(s)))

\* int(value): surrounding blanks and one sign are accepted, then only
\* decimal digits; anything else raises ValueError (ok = FALSE).
PyInt(value) ==
    LET t == Strip(value)
        signed == t # <<>> /\ Head(t) \in {"+", "-"}
        body == IF signed THEN Tail(t) ELSE t
        good == body # <<>> /\ \A i \in DOMAIN body : IsDigit(body[i])
    IN  IF ~good THEN [ok |-> FALSE, val |-> 0]
        ELSE [ok |-> TRUE,
              val |-> IF signed /\ Head(t) = "-" THEN 0 - DigitsValue(body, 0)
                      ELSE DigitsValue(body, 0)]

RECURSIVE NatStr(_)
NatStr(n) == IF n < 10 THEN <<DigitChars[n + 1]>>
             ELSE NatStr(n \div 10) \o <<DigitChars[(n % 10) + 1]>>

\* str(n) for an int
PyStr(n) == IF n < 0 THEN <<"-">> \o NatStr(0 - n) ELSE NatStr(n)

\* ------------------------------------------------------------------------
\* json.dumps / json.loads on lists of strings
\* ------------------------------------------------------------------------
\* None for a text value: a token no character sequence can equal
NoneText == <<"None">>

\* `not value` for a text value
Falsy(value) == value = NoneText \/ value = <<>>

\* a variant of JsonEscape that escapes nothing
JsonEscape_nothing(s) == s

RECURSIVE JsonEscape(_)
\* the characters json.dumps escapes inside a string literal
JsonEscape(s) ==
    IF s = <<>> THEN <<>>
    ELSE (IF Head(s) \in {"\"", "\\"} THEN <<"\\", Head(s)>> ELSE <<Head(s)>>)
         \o JsonEscape(Tail(s))

\* json.dumps(list_of_str, ensure_ascii=True)
JsonDumps(values) ==
    <<"[">>
    \o Join([i \in DOMAIN values |-> <<"\"">> \o JsonEscape(values[i]) \o <<"\"">>],
            <<",", " ">>)
    \o <<"]">>

RECURSIVE SkipWs(_, _)
SkipWs(t, i) == IF i <= Len(t) /\ t[i] = " " THEN SkipWs(t, i + 1) ELSE i

RECURSIVE ScanString(_, _, _)
\* scans a string literal whose opening quote is at i - 1
ScanString(t, i, acc) ==
    IF i > Len(t) THEN [ok |-> FALSE, val |-> <<>>, next |-> i]
    ELSE IF t[i] = "\"" THEN [ok |-> TRUE, val |-> acc, next |-> i + 1]
    ELSE IF t[i] = "\\" THEN
        IF i + 1 <= Len(t) /\ t[i + 1] \in {"\"", "\\"}
        THEN ScanString(t, i + 2, Append(acc, t[i + 1]))
        ELSE [ok |-> FALSE, val |-> <<>>, next |-> i]
    ELSE ScanString(t, i + 1, Append(acc, t[i]))

RECURSIVE ScanElements(_, _, _)
\* scans `"..." ( , "..." )* ]` starting at i
ScanElements(t, i, acc) ==
    LET j == SkipWs(t, i)
    IN  IF j > Len(t) \/ t[j] # "\"" THEN [ok |-> FALSE, val |-> <<>>, next |-> j]
        ELSE LET str == ScanString(t, j + 1, <<>>)
                 k == SkipWs(t, str.next)
             IN  IF ~str.ok \/ k > Len(t) THEN [ok |-> FALSE, val |-> <<>>, next |-> k]
                 ELSE IF t[k] = "]"
                      THEN [ok |-> TRUE, val |-> Append(acc, str.val), next |-> k + 1]
                 ELSE IF t[k] = ","
                      THEN ScanElements(t, k + 1, Append(acc, str.val))
                 ELSE [ok |-> FALSE, val |-> <<>>, next |-> k]

\* json.loads(text) restricted to its use in _deserialize_list: ok is TRUE
\* exactly when the text is a JSON array of strings (val is that list); every
\* other text either raises JSONDecodeError or decodes to a non-list.
JsonLoads(t) ==
    LET i == SkipWs(t, 1)
    IN  IF i > Len(t) \/ t[i] # "[" THEN [ok |-> FALSE, val |-> <<>>]
        ELSE LET j == SkipWs(t, i + 1)
             IN  IF j <= Len(t) /\ t[j] = "]"
                 THEN [ok |-> SkipWs(t, j + 1) > Len(t), val |-> <<>>]
                 ELSE LET r == ScanElements(t, i + 1, <<>>)
                      IN  IF r.ok /\ SkipWs(t, r.next) > Len(t)
                          THEN [ok |-> TRUE, val |-> r.val]
                          ELSE [ok |-> FALSE, val |-> <<>>]

RECURSIVE SplitComma(_, _)
\* str.split(","), cur being the part under construction
SplitComma(s, cur) ==
    IF s = <<>> THEN <<cur>>
    ELSE IF Head(s) = "," THEN <<cur>> \o SplitComma(Tail(s), <<>>)
    ELSE SplitComma(Tail(s), Append(cur, Head(s)))

\* [x for x in s if keep(x)]
RECURSIVE NonEmptyOnly(_)
NonEmptyOnly(s) ==
    IF s = <<>> THEN <<>>
    ELSE (IF Head(s) # <<>> THEN <<Head(s)>> ELSE <<>>) \o NonEmptyOnly(Tail(s))

_serialize_list(values) ==
    IF values = <<>> THEN NoneText
    ELSE LET cleaned == NonEmptyOnly(values)
         IN  IF cleaned = <<>> THEN NoneText ELSE JsonDumps(cleaned)

_deserialize_list(value) ==
    IF Falsy(value) THEN <<>>
    ELSE LET data == JsonLoads(value)
         IN  IF data.ok THEN data.val
             ELSE NonEmptyOnly(SplitComma(value, <<>>))

RECURSIVE _parse_recipient_ids_loop(_, _)
_parse_recipient_ids_loop(values, recipients) ==
    IF values = <<>> THEN recipients
    ELSE LET num == PyInt(Head(values))
         IN  _parse_recipient_ids_loop(
                 Tail(values),
                 IF num.ok /\ num.val \notin Range(recipients)
                 THEN Append(recipients, num.val) ELSE recipients)

_parse_recipient_ids(form_field_values) ==
    _parse_recipient_ids_loop(form_field_values, <<>>)

\* ------------------------------------------------------------------------
\* Inputs
\* ------------------------------------------------------------------------
\* User.email is unique and required at registration
UserEmail(u) == <<"u">> \o PyStr(u)

\* what a browser posts in the review_recipients fields of one form: no
\* field, a non-number, one id, the same id spelled twice, two users, an id
\* that is no user's alone and beside a user's
RecipientForms ==
    {<<>>, <<<<"x">>>>, <<<<"2">>>>, <<<<"2">>, <<"0", "2">>>>,
     <<<<"2">>, <<" ", "1">>>>, <<<<"9">>, <<"x">>>>, <<<<"9">>, <<"2">>>>}

\* values of a posted message field (NoneText: field absent)
MessageValues == {NoneText, <<>>, <<" ">>, <<" ", " ">>, <<"o", "k">>, <<" ", "h", "i">>}

\* the mail environment met by one send_email call: MAIL_ENABLED off,
\* a server/user/password/from setting missing, MAIL_PORT not a number,
\* or a complete configuration with the SMTP dialogue failing at the
\* connection, at login, at sending, or succeeding
MailEnvs == {"disabled", "missing", "bad_port", "connect_error",
             "login_error", "send_error", "ok"}

\* datetime.datetime.utcnow() as read by one request
Times == 1..MaxClock

\* the row orders in which a SELECT without ORDER BY may return the users S
QueryOrders(S) ==
    {q \in [1..Cardinality(S) -> S] :
        \A i, j \in 1..Cardinality(S) : i # j => q[i] # q[j]}

\* ------------------------------------------------------------------------
\* State
\* ------------------------------------------------------------------------
VARIABLES
    studies,        \* table studies: rows [created_by_id, consultation_id]
    consultations,  \* table consultations: rows [created_by_id]
    reviews,        \* table review_requests, row i has id i
    comments,       \* table review_comments: rows [id, review_id, user_id, message]
    controls,       \* table control_reminders, row i has id i
    screening,      \* table screenings: the rows of the patient
    followups,      \* table screening_followups, row i has id i
    patient_email,  \* Patient.email of the patient the requests are about
    patients,       \* table patients, row i has id i
    threads,        \* the requests in flight, one per worker thread
    db_init,        \* _DB_INIT_DONE, _DB_INIT_LOCK and the runs of the set-up
    user_table,     \* table users: role and status of each user
    sessions,       \* the user id each browser session holds, or NULL
    resp            \* outcome and external effects of the last request

vars == <<studies, consultations, reviews, comments, controls, screening,
          followups, patient_email, patients, threads, db_init, user_table, sessions,
          resp>>

ReviewTables == <<studies, consultations, reviews, comments>>
ControlTables == <<controls, screening, followups, patient_email>>
Accounts == <<user_table, sessions>>
PatientState == <<patients, threads, db_init, user_table, sessions>>

\* the browser sessions
Sessions == 1..NSessions

\* the users as create_tables_and_admin and the administrator leave them:
\* user 1 is the administrator, every user is approved
ApprovedUsers ==
    [u \in Users |-> [role |-> IF u = 1 THEN "admin" ELSE "medico",
                      status |-> "approved"]]

\* nobody has logged in
NoSessions == [s \in Sessions |-> NULL]

\* What the last request did: the handler (op) and current_user (user), how
\* it ended (outcome: "ok" committed, "forbidden" and "invalid" flashed and
\* redirected without a change, "error" an exception left the handler and
\* the session was rolled back), the id it was about or created (result),
\* the audit entries written (logged) and the send_email calls made (mails,
\* each with its addressees and its result).
NoResp == [op |-> "none", user |-> NULL, outcome |-> "none", result |-> NULL,
           logged |-> <<>>, mails |-> <<>>]

Response(op, user, outcome, result, logged, mails) ==
    [op |-> op, user |-> user, outcome |-> outcome, result |-> result,
     logged |-> logged, mails |-> mails]

\* status of a row that predates the status column
NoStatus == "None"

\* ------------------------------------------------------------------------
\* E-mail
\* ------------------------------------------------------------------------
\* "sent": True returned; "not_sent": False returned; "raised": int() of
\* MAIL_PORT raised ValueError, which happens before the try block.
send_email(to_addresses, env) ==
    IF env = "disabled" THEN "not_sent"
    ELSE IF env = "bad_port" THEN "raised"
    ELSE IF env = "missing" THEN "not_sent"
    ELSE IF NonEmptyOnly(to_addresses) = <<>> THEN "not_sent"
    ELSE IF env = "ok" THEN "sent"
    ELSE "not_sent"

\* the record of one send_email call
MailCall(to_addresses, env) ==
    [to |-> to_addresses, result |-> send_email(to_addresses, env)]

RECURSIVE _collect_emails_items(_, _)
_collect_emails_items(parts, emails) ==
    IF parts = <<>> THEN emails
    ELSE LET cleaned == IF Falsy(Head(parts)) THEN <<>> ELSE Strip(Head(parts))
         IN  _collect_emails_items(
                 Tail(parts),
                 IF cleaned # <<>> /\ cleaned \notin Range(emails)
                 THEN Append(emails, cleaned) ELSE emails)

RECURSIVE _collect_emails_lists(_, _)
_collect_emails_lists(lists, emails) ==
    IF lists = <<>> THEN emails
    ELSE _collect_emails_lists(Tail(lists), _collect_emails_items(Head(lists), emails))

\* the arguments are lists of addresses; a single address is a list of one
\* and None is the empty list
_collect_emails(lists) == _collect_emails_lists(lists, <<>>)

\* ------------------------------------------------------------------------
\* Review requests
\* ------------------------------------------------------------------------
\* [int(x) for x in _deserialize_list(text)] inside try/except: any element
\* that int() rejects makes the whole list empty
IntsOf(strs) ==
    IF \A i \in DOMAIN strs : PyInt(strs[i]).ok
    THEN [i \in DOMAIN strs |-> PyInt(strs[i]).val]
    ELSE <<>>

\* the recipient ids a notification reads from the recipients column
RecipientIntsOf(text) == IntsOf(_deserialize_list(text))

\* the users User.query.filter(User.id.in_(ids)) selects
UsersWithIdIn(ids) == {u \in Users : u \in ids}

\* a variant of _get_review_recipient_emails that derives an address from each
\* id without looking the users up
_get_review_recipient_emails_no_lookup(recipient_ids, qrows) ==
    [i \in DOMAIN recipient_ids |-> UserEmail(recipient_ids[i])]

\* qrows: the rows of that query in the order the database returned them
_get_review_recipient_emails(recipient_ids, qrows) ==
    IF recipient_ids = <<>> THEN <<>>
    ELSE LET users == SelectSeq(qrows, LAMBDA u : u \in Range(recipient_ids))
         IN  [i \in DOMAIN users |-> UserEmail(users[i])]

\* the ids notify_review_request looks up for the row rr
ReviewRequestNotifyIds(rr) == RecipientIntsOf(rr.recipients)

\* if not emails: return; ...; send_email(emails, subject, body), not inside
\* a try block.  mails: the send_email calls made; raised: an exception left
\* the function
SendReviewMail(emails, env) ==
    IF emails = <<>> THEN [mails |-> <<>>, raised |-> FALSE]
    ELSE [mails |-> <<MailCall(emails, env)>>,
          raised |-> send_email(emails, env) = "raised"]

notify_review_request(rr, env, qrows) ==
    SendReviewMail(_get_review_recipient_emails(ReviewRequestNotifyIds(rr), qrows), env)

\* list({rid for rid in recipient_ids + [created_by_id]}): a set, listed here
\* in increasing order (the order is immaterial to the IN query)
RECURSIVE SetToSeq(_)
SetToSeq(S) ==
    IF S = {} THEN <<>>
    ELSE LET m == CHOOSE x \in S : \A y \in S : x <= y
         IN  <<m>> \o SetToSeq(S \ {m})

ReviewCommentNotifyIds(review) ==
    SetToSeq(Range(RecipientIntsOf(review.recipients))
             \cup (IF review.created_by_id # NULL THEN {review.created_by_id} ELSE {}))

notify_review_comment(review, env, qrows) ==
    SendReviewMail(_get_review_recipient_emails(ReviewCommentNotifyIds(review), qrows), env)

\* ReviewRequest(...) as create_review_request builds it, column defaults applied
NewReview(created_by, recipient_ids, study_id, consultation_id) ==
    [created_by_id |-> created_by,
     recipients |-> LET t == _serialize_list([i \in DOMAIN recipient_ids |->
                                                 PyStr(recipient_ids[i])])
                    IN  IF Falsy(t) THEN <<"[", "]">> ELSE t,
     status |-> "pending",
     resolved_at |-> NULL,
     study_id |-> study_id,
     consultation_id |-> consultation_id]

\* create_review_request past its first test, rr being the row it builds and
\* n what notify_review_request(rr) does.  rows: the table after add +
\* flush; rr: id of the row returned, or NULL; logged: audit entries written;
\* mails: send_email calls; raised: an exception left the function (nothing
\* is returned then)
PersistReviewRequest(rows, rr, n) ==
    [rows |-> Append(rows, rr),
     rr |-> IF n.raised THEN NULL ELSE Len(rows) + 1,
     logged |-> <<[action |-> "review_request_create", review_id |-> Len(rows) + 1]>>,
     mails |-> n.mails,
     raised |-> n.raised]

\* a variant of create_review_request without the test of the recipient list
create_review_request_no_test(rows, created_by, recipient_ids, study_id, consultation_id, env, qrows) ==
    PersistReviewRequest(
        rows,
        NewReview(created_by, recipient_ids, study_id, consultation_id),
        notify_review_request(
            NewReview(created_by, recipient_ids, study_id, consultation_id), env, qrows))

\* if not recipient_ids: return None
create_review_request(rows, created_by, recipient_ids, study_id, consultation_id, env, qrows) ==
    IF recipient_ids = <<>>
    THEN [rows |-> rows, rr |-> NULL, logged |-> <<>>, mails |-> <<>>, raised |-> FALSE]
    ELSE PersistReviewRequest(
             rows,
             NewReview(created_by, recipient_ids, study_id, consultation_id),
             notify_review_request(
                 NewReview(created_by, recipient_ids, study_id, consultation_id),
                 env, qrows))

\* the id the database gives the next review_comments row
NextCommentId(rows) ==
    IF rows = <<>> THEN 1
    ELSE 1 + (CHOOSE m \in {rows[i].id : i \in DOMAIN rows} :
                 \A i \in DOMAIN rows : rows[i].id <= m)

\* add_review_comment past its first test, text being the stripped message
\* and n what notify_review_comment does
PersistReviewComment(rows, review_id, user, text, n) ==
    [rows |-> Append(rows, [id |-> NextCommentId(rows), review_id |-> review_id,
                            user_id |-> user, message |-> text]),
     comment |-> IF n.raised THEN NULL ELSE NextCommentId(rows),
     logged |-> <<[action |-> "review_comment_add", review_id |-> review_id]>>,
     mails |-> n.mails,
     raised |-> n.raised]

\* a variant of MessageText that does not strip the message
MessageText_unstripped(message) == IF Falsy(message) THEN <<>> ELSE message

\* text = (message or "").strip()
MessageText(message) == IF Falsy(message) THEN <<>> ELSE Strip(message)

add_review_comment(rows, review, review_id, user, message, env, qrows) ==
    IF MessageText(message) = <<>>
    THEN [rows |-> rows, comment |-> NULL, logged |-> <<>>, mails |-> <<>>,
          raised |-> FALSE]
    ELSE PersistReviewComment(rows, review_id, user, MessageText(message),
                              notify_review_comment(review, env, qrows))
\* ------------------------------------------------------------------------
\* Request handlers of the review workflow.  Each request runs as current_user
\* u, a logged-in user.  A handler is one atomic step; an exception that
\* leaves it ends the request with a 500 response and the session is rolled
\* back, while audit entries and e-mails already written stay written.
\* ------------------------------------------------------------------------
\* a variant of IsRecipient that also accepts the creator of the request
IsRecipient_or_creator(u, review) ==
    \/ PyStr(u) \in Range(_deserialize_list(review.recipients))
    \/ review.created_by_id = u

\* str(current_user.id) in _deserialize_list(review.recipients)
IsRecipient(u, review) == PyStr(u) \in Range(_deserialize_list(review.recipients))

\* a variant of the test below that leaves the creator out
NotRecipientNorCreator_recipient_only(u, review) == ~IsRecipient(u, review)

\* str(current_user.id) not in recipients and
\* review.created_by_id != current_user.id
NotRecipientNorCreator(u, review) ==
    ~IsRecipient(u, review) /\ review.created_by_id # u

\* a variant of MarkResolved that resolves only a request in progress
MarkResolved_from_in_progress(review, now) ==
    IF review.status = "in_progress"
    THEN [review EXCEPT !.status = "resolved", !.resolved_at = now]
    ELSE review

\* review.status = "resolved"; review.resolved_at = utcnow()
MarkResolved(review, now) ==
    [review EXCEPT !.status = "resolved", !.resolved_at = now]

\* a variant of MarkInProgress that reopens a resolved request as pending
MarkInProgress_reopen_pending(review) ==
    [review EXCEPT !.status = IF @ = "resolved" THEN "pending" ELSE "in_progress"]

\* review.status = "in_progress"
MarkInProgress(review) == [review EXCEPT !.status = "in_progress"]

\* every way create_review_request can go for these arguments, over the mail
\* environments and the row orders of its user query
CreateReviewRequestOutcomes(rows, created_by, recipient_ids, study_id, consultation_id) ==
    {create_review_request(rows, created_by, recipient_ids, study_id,
                           consultation_id, env, qrows) :
        env \in MailEnvs,
        qrows \in QueryOrders(UsersWithIdIn(Range(ReviewRequestNotifyIds(
                     NewReview(created_by, recipient_ids, study_id, consultation_id)))))}

\* every way add_review_comment can go for these arguments
AddReviewCommentOutcomes(rows, review, review_id, user, message) ==
    {add_review_comment(rows, review, review_id, user, message, env, qrows) :
        env \in MailEnvs,
        qrows \in QueryOrders(UsersWithIdIn(Range(ReviewCommentNotifyIds(review))))}

\* POST /patients/<id>/studies/new
study_new(u, review_recipients) ==
    LET review_recips == _parse_recipient_ids(review_recipients)
        study == [created_by_id |-> u, consultation_id |-> NULL]
        study_id == Len(studies) + 1
    IN  /\ IF review_recips = <<>>
           THEN /\ studies' = Append(studies, study)
                /\ resp' = Response("study_new", u, "ok", NULL, <<>>, <<>>)
                /\ UNCHANGED reviews
           ELSE /\ Len(reviews) < MaxReviews
                /\ \E r \in CreateReviewRequestOutcomes(reviews, u, review_recips,
                                                        study_id, NULL) :
                      IF r.raised
                      THEN /\ resp' = Response("study_new", u, "error", NULL,
                                               r.logged, r.mails)
                           /\ UNCHANGED <<studies, reviews>>
                      ELSE /\ studies' = Append(studies, study)
                           /\ reviews' = r.rows
                           /\ resp' = Response("study_new", u, "ok", r.rr,
                                               r.logged, r.mails)
        /\ UNCHANGED <<consultations, comments>>
        /\ UNCHANGED ControlTables
        /\ UNCHANGED PatientState

\* create_review_request called on its own with the list a caller has parsed,
\* the caller committing when the call returns
create_review_request_call(u, recipient_ids) ==
    /\ recipient_ids # <<>> => Len(reviews) < MaxReviews
    /\ \E r \in CreateReviewRequestOutcomes(reviews, u, recipient_ids, NULL, NULL) :
          IF r.raised
          THEN /\ resp' = Response("create_review_request", u, "error", NULL,
                                   r.logged, r.mails)
                               @@ [recipient_ids |-> recipient_ids]
               /\ UNCHANGED reviews
          ELSE /\ reviews' = r.rows
               /\ resp' = Response("create_review_request", u, "ok", r.rr,
                                   r.logged, r.mails)
                               @@ [recipient_ids |-> recipient_ids]
    /\ UNCHANGED <<studies, consultations, comments>>
    /\ UNCHANGED ControlTables
    /\ UNCHANGED PatientState

\* POST /reviews/<id>/resolve
review_resolve(u, review_id, now) ==
    /\ review_id \in DOMAIN reviews
    /\ IF ~IsRecipient(u, reviews[review_id])
       THEN /\ resp' = Response("review_resolve", u, "forbidden", review_id, <<>>, <<>>)
            /\ UNCHANGED reviews
       ELSE /\ reviews' = [reviews EXCEPT ![review_id] = MarkResolved(@, now)]
            /\ resp' = Response("review_resolve", u, "ok", review_id,
                                <<[action |-> "review_request_resolved",
                                   review_id |-> review_id]>>, <<>>)
    /\ UNCHANGED <<studies, consultations, comments>>
    /\ UNCHANGED ControlTables
    /\ UNCHANGED PatientState

\* POST /reviews/<id>/progress
review_progress(u, review_id) ==
    /\ review_id \in DOMAIN reviews
    /\ IF NotRecipientNorCreator(u, reviews[review_id])
       THEN /\ resp' = Response("review_progress", u, "forbidden", review_id, <<>>, <<>>)
            /\ UNCHANGED reviews
       ELSE /\ reviews' = [reviews EXCEPT ![review_id] = MarkInProgress(@)]
            /\ resp' = Response("review_progress", u, "ok", review_id, <<>>, <<>>)
    /\ UNCHANGED <<studies, consultations, comments>>
    /\ UNCHANGED ControlTables
    /\ UNCHANGED PatientState

\* POST /reviews/<id>/comment
review_comment(u, review_id) ==
    /\ review_id \in DOMAIN reviews
    /\ IF NotRecipientNorCreator(u, reviews[review_id])
       THEN /\ resp' = Response("review_comment", u, "forbidden", review_id, <<>>, <<>>)
            /\ UNCHANGED comments
       ELSE \E message \in MessageValues :
            \E r \in AddReviewCommentOutcomes(comments, reviews[review_id], review_id,
                                              u, message) :
               /\ r.rows # comments => Len(comments) < MaxComments
               /\ IF r.raised
                  THEN /\ resp' = Response("review_comment", u, "error", review_id,
                                           r.logged, r.mails)
                                       @@ [message |-> message]
                       /\ UNCHANGED comments
                  ELSE IF r.comment # NULL
                  THEN /\ comments' = r.rows
                       /\ resp' = Response("review_comment", u, "ok", review_id,
                                           r.logged, r.mails)
                                       @@ [message |-> message]
                  ELSE /\ resp' = Response("review_comment", u, "invalid", review_id,
                                           r.logged, r.mails)
                                       @@ [message |-> message]
                       /\ UNCHANGED comments
    /\ UNCHANGED <<studies, consultations, reviews>>
    /\ UNCHANGED ControlTables
    /\ UNCHANGED PatientState

\* the check shared by review_comment_edit and review_comment_delete
CommentChangeAllowed(u, comment) ==
    \/ comment.user_id = u
    \/ reviews[comment.review_id].created_by_id = u

\* POST /reviews/comment/<id>/edit, k being the position of the row
review_comment_edit(u, k) ==
    /\ k \in DOMAIN comments
    /\ IF ~CommentChangeAllowed(u, comments[k])
       THEN /\ resp' = Response("review_comment_edit", u, "forbidden",
                                comments[k].id, <<>>, <<>>)
            /\ UNCHANGED comments
       ELSE \E message \in MessageValues :
               LET new_message == IF message = NoneText THEN <<>> ELSE Strip(message)
               IN  IF new_message # <<>>
                   THEN /\ comments' = [comments EXCEPT ![k].message = new_message]
                        /\ resp' = Response("review_comment_edit", u, "ok",
                                            comments[k].id, <<>>, <<>>)
                   ELSE /\ resp' = Response("review_comment_edit", u, "invalid",
                                            comments[k].id, <<>>, <<>>)
                        /\ UNCHANGED comments
    /\ UNCHANGED <<studies, consultations, reviews>>
    /\ UNCHANGED ControlTables
    /\ UNCHANGED PatientState

\* POST /reviews/comment/<id>/delete, k being the position of the row
review_comment_delete(u, k) ==
    /\ k \in DOMAIN comments
    /\ IF ~CommentChangeAllowed(u, comments[k])
       THEN /\ resp' = Response("review_comment_delete", u, "forbidden",
                                comments[k].id, <<>>, <<>>)
            /\ UNCHANGED comments
       ELSE /\ comments' = [i \in 1..(Len(comments) - 1) |->
                               IF i < k THEN comments[i] ELSE comments[i + 1]]
            /\ resp' = Response("review_comment_delete", u, "ok",
                                comments[k].id, <<>>, <<>>)
    /\ UNCHANGED <<studies, consultations, reviews>>
    /\ UNCHANGED ControlTables
    /\ UNCHANGED PatientState

\* ------------------------------------------------------------------------
\* Control reminders and screening follow-ups
\* ------------------------------------------------------------------------
\* [e.strip() for e in text.split(",") if e.strip()]
RECURSIVE StripEach(_)
StripEach(parts) ==
    IF parts = <<>> THEN <<>>
    ELSE <<Strip(Head(parts))>> \o StripEach(Tail(parts))

SplitEmails(text) ==
    IF Falsy(text) THEN <<>> ELSE NonEmptyOnly(StripEach(SplitComma(text, <<>>)))

\* (form.get(name) or "").strip() or None
StripOrNone(value) ==
    IF Falsy(value) \/ Strip(value) = <<>> THEN NoneText ELSE Strip(value)

\* the whole body runs inside try/except Exception, so nothing is raised;
\* the value is the sequence of send_email calls made
notify_control_reminder(cr, p_email, env) ==
    LET to_patient == IF Falsy(p_email) THEN <<>> ELSE <<p_email>>
        extra_list == SplitEmails(cr.extra_emails)
        creator_email == IF cr.created_by_id # NULL
                         THEN <<UserEmail(cr.created_by_id)>> ELSE <<>>
        to_emails == _collect_emails(<<to_patient, extra_list, creator_email>>)
    IN  IF to_emails = <<>> THEN <<>> ELSE <<MailCall(to_emails, env)>>

notify_screening_followup(fu, sc, p_email, env) ==
    LET to_patient == IF Falsy(p_email) THEN <<>> ELSE <<p_email>>
        extra_email == IF Falsy(sc.extra_email) THEN <<>> ELSE <<sc.extra_email>>
        creator_email == IF fu.created_by_id # NULL
                         THEN <<UserEmail(fu.created_by_id)>> ELSE <<>>
        to_emails == _collect_emails(<<to_patient, extra_email, creator_email>>)
    IN  IF to_emails = <<>> THEN <<>> ELSE <<MailCall(to_emails, env)>>

\* ControlReminder(...) as consultation_new builds it, column defaults applied
NewControlReminder(created_by, consultation_id, control_date, extra_emails) ==
    [created_by_id |-> created_by,
     consultation_id |-> consultation_id,
     control_date |-> control_date,
     extra_emails |-> extra_emails,
     status |-> "pending",
     completed |-> FALSE,
     completed_at |-> NULL]

\* ScreeningFollowup(...) as patient_screening builds it, column defaults applied
NewScreeningFollowup(created_by, screening_id, next_control_date) ==
    [created_by_id |-> created_by,
     screening_id |-> screening_id,
     next_control_date |-> next_control_date,
     status |-> "pending",
     completed |-> FALSE,
     completed_at |-> NULL]

\* Screening(patient=patient)
NewScreening == [extra_email |-> NoneText, next_control_date |-> NoneText]

\* ------------------------------------------------------------------------
\* Consultations and their studies
\* ------------------------------------------------------------------------
\* a row that was deleted; the ids of a table are the positions of its
\* sequence, and the id of a new row is one more than the largest id in the
\* table (SQLite, the default database, numbers an INTEGER PRIMARY KEY so)
Gone == [gone |-> TRUE]

Live(rows) == {i \in DOMAIN rows : rows[i] # Gone}

RECURSIVE TrimGone(_)
TrimGone(rows) ==
    IF rows # <<>> /\ rows[Len(rows)] = Gone
    THEN TrimGone(SubSeq(rows, 1, Len(rows) - 1))
    ELSE rows

\* the table without the rows ids
DeleteRows(rows, ids) ==
    TrimGone([i \in DOMAIN rows |-> IF i \in ids THEN Gone ELSE rows[i]])

\* the table with column col set to NULL in the rows ids
SetNull(rows, ids, col) ==
    [i \in DOMAIN rows |-> IF i \in ids THEN [rows[i] EXCEPT ![col] = NULL] ELSE rows[i]]

\* the study groups in the order consultation_new reads them
StudyGroups == <<"func", "img", "inv">>

\* the list fields of the study rows of a form: each is posted under its
\* name or under its name followed by []
ListKeys == {"study_type", "study_date"} \X Range(StudyGroups) \X {"plain", "brackets"}

NoLists == [k \in ListKeys |-> <<>>]

NoDescriptions == [g \in Range(StudyGroups) |-> NoneText]

\* the posted fields of consultation_new this model reads (the center,
\* access code, portal link and report file of a study row are left out:
\* they are stored on the Study and decide nothing)
ConsultationForms ==
    [date : {NoneText, <<"d">>},
     study_groups : {{}, {"func"}, {"inv"}, {"img", "inv"}},
     control_enabled : {"absent", "on"},
     control_date : {<<" ">>, <<"d", "1">>},
     control_extra_emails : {NoneText, <<"e", ",", " ", "u", "1">>},
     review_recipients : RecipientForms,
     lists : {NoLists},
     study_description : {NoDescriptions}]

\* _get_list(key)
_get_list(form, name, g) ==
    IF form.lists[<<name, g, "plain">>] # <<>>
    THEN StripEach(form.lists[<<name, g, "plain">>])
    ELSE StripEach(form.lists[<<name, g, "brackets">>])

\* ((xs[idx] if idx < len(xs) else "") or "").strip()
ItemOrEmpty(xs, idx) == IF idx <= Len(xs) THEN Strip(xs[idx]) ELSE <<>>

\* a variant of StudyRowGiven that looks at the type only
StudyRowGiven_type_only(stype, sdate) == stype # <<>>

\* the negation of `if not stype and not sdate: continue`
StudyRowGiven(stype, sdate) == stype # <<>> \/ sdate # <<>>

\* "Estudio asociado a consulta"
DefaultStudyType == <<"E", "s", "t", "u", "d", "i", "o">>

\* Study(...) as add_studies_from_lists builds it; ctx: the user, the
\* patient, the consultation and its date
NewStudy(ctx, stype, sdate, shared_desc) ==
    [created_by_id |-> ctx.created_by,
     consultation_id |-> ctx.consultation_id,
     patient_id |-> ctx.patient_id,
     study_type |-> IF stype # <<>> THEN stype ELSE DefaultStudyType,
     date |-> IF sdate # <<>> THEN sdate ELSE ctx.date,
     description |-> IF Falsy(shared_desc) THEN NoneText ELSE shared_desc]

\* the body of add_studies_from_lists from row idx on: the Study rows added
RECURSIVE add_studies_from_lists(_, _, _, _, _)
add_studies_from_lists(types, dates, shared_desc, ctx, idx) ==
    IF idx > Len(types) /\ idx > Len(dates) THEN <<>>
    ELSE (IF StudyRowGiven(ItemOrEmpty(types, idx), ItemOrEmpty(dates, idx))
          THEN <<NewStudy(ctx, ItemOrEmpty(types, idx), ItemOrEmpty(dates, idx),
                          shared_desc)>>
          ELSE <<>>)
         \o add_studies_from_lists(types, dates, shared_desc, ctx, idx + 1)

\* the Study rows one group adds: none when the group is not among the
\* posted study_groups
GroupStudies(form, g, ctx) ==
    IF g \in form.study_groups
    THEN add_studies_from_lists(_get_list(form, "study_type", g),
                                _get_list(form, "study_date", g),
                                StripOrNone(form.study_description[g]), ctx, 1)
    ELSE <<>>

\* studies_created
StudiesCreated(form, ctx) ==
    GroupStudies(form, "func", ctx) \o GroupStudies(form, "img", ctx)
        \o GroupStudies(form, "inv", ctx)

\* a variant of ControlRequested that does not look at the study groups
ControlRequested_any_group(form) ==
    /\ form.control_enabled \in {"on", "true", "1"}
    /\ StripOrNone(form.control_date) # NoneText

\* control_enabled and control_date and
\* any(g in study_groups for g in ("func", "img"))
ControlRequested(form) ==
    /\ form.control_enabled \in {"on", "true", "1"}
    /\ StripOrNone(form.control_date) # NoneText
    /\ \E g \in {"func", "img"} : g \in form.study_groups

\* Consultation(...)
NewConsultation(created_by, patient_id, date) ==
    [created_by_id |-> created_by, patient_id |-> patient_id, date |-> date]

\* the response of consultation_new
ConsultationResponse(u, outcome, result, logged, mails) ==
    Response("consultation_new", u, outcome, result, logged, mails)

\* ctx of the Study rows of a new consultation
NewConsultationCtx(u, patient_id, form) ==
    [created_by |-> u, patient_id |-> patient_id,
     consultation_id |-> Len(consultations) + 1, date |-> form.date]

\* study_for_review = studies_created[0] if studies_created else None
StudyForReview(created) == IF created # <<>> THEN Len(studies) + 1 ELSE NULL

\* what create_review_request does for consultation_new
ConsultationReviewOutcomes(u, review_recips, study_id, consultation_id) ==
    IF review_recips # <<>>
    THEN CreateReviewRequestOutcomes(reviews, u, review_recips, study_id, consultation_id)
    ELSE {[rows |-> reviews, rr |-> NULL, logged |-> <<>>, mails |-> <<>>,
           raised |-> FALSE]}

\* consultation_new from create_review_request on, given the rows it has
\* added to the session: the consultation, the studies created, the
\* reminder cr when with_cr
ConsultationNewSubmit(u, consultation, created, with_cr, cr, review_recips) ==
    /\ with_cr => Len(controls) < MaxControls
    /\ review_recips # <<>> => Len(reviews) < MaxReviews
    /\ \E r \in ConsultationReviewOutcomes(u, review_recips, StudyForReview(created),
                                           Len(consultations) + 1) :
          IF r.raised
          THEN /\ resp' = ConsultationResponse(u, "error", NULL, r.logged, r.mails)
               /\ UNCHANGED <<consultations, controls, reviews, studies>>
          ELSE \E env \in MailEnvs :
               /\ consultations' = Append(consultations, consultation)
               /\ studies' = studies \o created
               /\ controls' = IF with_cr THEN Append(controls, cr) ELSE controls
               /\ reviews' = r.rows
               /\ resp' = ConsultationResponse(
                      u, "ok",
                      [review |-> r.rr,
                       control |-> IF with_cr THEN Len(controls) + 1 ELSE NULL,
                       consultation |-> Len(consultations) + 1,
                       studies |-> [i \in DOMAIN created |-> Len(studies) + i]],
                      r.logged,
                      r.mails \o (IF with_cr
                                  THEN notify_control_reminder(cr, patient_email, env)
                                  ELSE <<>>))

\* POST /patients/<id>/consultations/new
consultation_new(u, patient_id, form) ==
    /\ IF patient_id \notin Live(patients)
       THEN /\ resp' = ConsultationResponse(u, "not_found", NULL, <<>>, <<>>)
            /\ UNCHANGED <<consultations, controls, reviews, studies>>
       ELSE IF Falsy(form.date)
       THEN /\ resp' = ConsultationResponse(u, "invalid", NULL, <<>>, <<>>)
            /\ UNCHANGED <<consultations, controls, reviews, studies>>
       ELSE ConsultationNewSubmit(
                u,
                NewConsultation(u, patient_id, form.date),
                StudiesCreated(form, NewConsultationCtx(u, patient_id, form)),
                ControlRequested(form),
                NewControlReminder(u, Len(consultations) + 1,
                                   StripOrNone(form.control_date),
                                   StripOrNone(form.control_extra_emails)),
                _parse_recipient_ids(form.review_recipients))
    /\ UNCHANGED <<comments, screening, followups, patient_email>>
    /\ UNCHANGED PatientState

\* a variant of OtherCreator that treats a missing creator as another user
OtherCreator_strict(row, u) == row.created_by_id # u

\* x.created_by_id and x.created_by_id != current_user.id
OtherCreator(row, u) == row.created_by_id # NULL /\ row.created_by_id # u

\* a variant of MarkDone that leaves completed_at as it was
MarkDone_no_restamp(row, now) ==
    [row EXCEPT !.status = "done", !.completed = TRUE]

\* x.status = "done"; x.completed = True; x.completed_at = utcnow()
MarkDone(row, now) ==
    [row EXCEPT !.status = "done", !.completed = TRUE, !.completed_at = now]

\* a variant of MarkNotDone that keeps the completed flag
MarkNotDone_keep_flag(row) == [row EXCEPT !.status = "in_progress"]

\* x.status = "in_progress"; x.completed = False
MarkNotDone(row) == [row EXCEPT !.status = "in_progress", !.completed = FALSE]

\* POST /controls/<id>/complete
control_reminder_complete(u, reminder_id, now) ==
    /\ reminder_id \in DOMAIN controls
    /\ LET cr == controls[reminder_id]
       IN  IF OtherCreator(cr, u)
           THEN /\ resp' = Response("control_reminder_complete", u, "forbidden",
                                    reminder_id, <<>>, <<>>)
                /\ UNCHANGED controls
           ELSE /\ controls' = [controls EXCEPT ![reminder_id] = MarkDone(@, now)]
                /\ resp' = Response("control_reminder_complete", u, "ok",
                                    reminder_id, <<>>, <<>>)
    /\ UNCHANGED <<screening, followups, patient_email>>
    /\ UNCHANGED ReviewTables
    /\ UNCHANGED PatientState

\* POST /controls/<id>/progress
control_reminder_progress(u, reminder_id) ==
    /\ reminder_id \in DOMAIN controls
    /\ LET cr == controls[reminder_id]
       IN  IF OtherCreator(cr, u)
           THEN /\ resp' = Response("control_reminder_progress", u, "forbidden",
                                    reminder_id, <<>>, <<>>)
                /\ UNCHANGED controls
           ELSE /\ controls' = [controls EXCEPT ![reminder_id] = MarkNotDone(@)]
                /\ resp' = Response("control_reminder_progress", u, "ok",
                                    reminder_id, <<>>, <<>>)
    /\ UNCHANGED <<screening, followups, patient_email>>
    /\ UNCHANGED ReviewTables
    /\ UNCHANGED PatientState

\* the posted fields of the add_followup branch of patient_screening
FollowupForms ==
    [fu_study_type : {NoneText, <<"t">>},
     fu_study_date : {<<" ">>, <<"d">>},
     fu_next_control_date : {NoneText, <<"d", "1">>},
     fu_file : {"none", "pdf", "exe"}]

\* POST /patients/<id>/screening with action = add_followup
patient_screening_add_followup(u, form) ==
    LET sc_rows == IF screening = <<>> THEN <<NewScreening>> ELSE screening
        fu_type == StripOrNone(form.fu_study_type)
        fu_date == StripOrNone(form.fu_study_date)
        fu_next_date == StripOrNone(form.fu_next_control_date)
        fu == NewScreeningFollowup(u, 1, fu_next_date)
    IN  /\ screening' = sc_rows
        /\ IF fu_type = NoneText \/ fu_date = NoneText
           THEN /\ resp' = Response("patient_screening", u, "invalid", NULL, <<>>, <<>>)
                /\ UNCHANGED followups
           ELSE IF form.fu_file \notin {"none", "pdf", "png", "jpg", "jpeg"}
           THEN /\ resp' = Response("patient_screening", u, "invalid", NULL, <<>>, <<>>)
                /\ UNCHANGED followups
           ELSE /\ Len(followups) < MaxFollowups
                /\ followups' = Append(followups, fu)
                /\ \E env \in MailEnvs :
                      resp' = Response("patient_screening", u, "ok", Len(followups) + 1,
                                       <<>>,
                                       notify_screening_followup(fu, sc_rows[1],
                                                                 patient_email, env))
        /\ UNCHANGED <<controls, patient_email>>
        /\ UNCHANGED ReviewTables
        /\ UNCHANGED PatientState

\* POST /screening/followup/<id>/complete
screening_followup_complete(u, followup_id, now) ==
    /\ followup_id \in DOMAIN followups
    /\ LET fu == followups[followup_id]
       IN  IF OtherCreator(fu, u)
           THEN /\ resp' = Response("screening_followup_complete", u, "forbidden",
                                    followup_id, <<>>, <<>>)
                /\ UNCHANGED followups
           ELSE /\ followups' = [followups EXCEPT ![followup_id] = MarkDone(@, now)]
                /\ resp' = Response("screening_followup_complete", u, "ok",
                                    followup_id, <<>>, <<>>)
    /\ UNCHANGED <<controls, screening, patient_email>>
    /\ UNCHANGED ReviewTables
    /\ UNCHANGED PatientState

\* POST /screening/followup/<id>/progress
screening_followup_progress(u, followup_id) ==
    /\ followup_id \in DOMAIN followups
    /\ LET fu == followups[followup_id]
       IN  IF OtherCreator(fu, u)
           THEN /\ resp' = Response("screening_followup_progress", u, "forbidden",
                                    followup_id, <<>>, <<>>)
                /\ UNCHANGED followups
           ELSE /\ followups' = [followups EXCEPT ![followup_id] = MarkNotDone(@)]
                /\ resp' = Response("screening_followup_progress", u, "ok",
                                    followup_id, <<>>, <<>>)
    /\ UNCHANGED <<controls, screening, patient_email>>
    /\ UNCHANGED ReviewTables
    /\ UNCHANGED PatientState


\* ------------------------------------------------------------------------
\* Editing and deleting consultations and studies
\* ------------------------------------------------------------------------
\* the studies of a consultation
StudiesOf(consultation_id) ==
    {i \in Live(studies) : studies[i].consultation_id = consultation_id}

\* the rows of a table whose column col holds id
Referring(rows, col, id) == {i \in Live(rows) : rows[i][col] = id}

\* consultation_edit once the creator is known to be the user: the new date
\* is stored, Study.query.filter_by(consultation_id=...).delete() removes
\* the studies of the consultation with one DELETE statement (no row of
\* another table is touched), kept being the studies left, and the studies
\* of the form are created again
ConsultationEditSave(u, consultation_id, consultation, kept, form) ==
    /\ consultations' = [consultations EXCEPT ![consultation_id] = consultation]
    /\ studies' = kept \o StudiesCreated(
                             form,
                             [created_by |-> u, patient_id |-> consultation.patient_id,
                              consultation_id |-> consultation_id,
                              date |-> consultation.date])
    /\ resp' = Response("consultation_edit", u, "ok", consultation_id, <<>>, <<>>)

\* POST /consultations/<id>/edit
consultation_edit(u, consultation_id, form) ==
    /\ IF consultation_id \notin Live(consultations)
       THEN /\ resp' = Response("consultation_edit", u, "not_found", consultation_id,
                                <<>>, <<>>)
            /\ UNCHANGED <<consultations, studies>>
       ELSE IF consultations[consultation_id].created_by_id # u
       THEN /\ resp' = Response("consultation_edit", u, "forbidden", consultation_id,
                                <<>>, <<>>)
            /\ UNCHANGED <<consultations, studies>>
       ELSE ConsultationEditSave(
                u, consultation_id,
                [consultations[consultation_id] EXCEPT
                    !.date = IF Falsy(form.date) THEN NoneText ELSE form.date],
                DeleteRows(studies, StudiesOf(consultation_id)),
                form)
    /\ UNCHANGED <<reviews, comments>>
    /\ UNCHANGED ControlTables
    /\ UNCHANGED PatientState

\* POST /consultations/<id>/delete.  db.session.delete(consultation): the
\* unit of work empties the collections the consultation has, studies and
\* review_requests (the backrefs of Study.consultation and
\* ReviewRequest.consultation), by setting their consultation_id to NULL;
\* ControlReminder.consultation has no backref, so the reminders are not
\* touched, and the database (SQLite without PRAGMA foreign_keys) does not
\* look at them
consultation_delete(u, consultation_id) ==
    /\ IF consultation_id \notin Live(consultations)
       THEN /\ resp' = Response("consultation_delete", u, "not_found", consultation_id,
                                <<>>, <<>>)
            /\ UNCHANGED <<consultations, studies, reviews>>
       ELSE IF consultations[consultation_id].created_by_id # u
       THEN /\ resp' = Response("consultation_delete", u, "forbidden", consultation_id,
                                <<>>, <<>>)
            /\ UNCHANGED <<consultations, studies, reviews>>
       ELSE /\ studies' = SetNull(studies, StudiesOf(consultation_id), "consultation_id")
            /\ reviews' = SetNull(reviews,
                                  Referring(reviews, "consultation_id", consultation_id),
                                  "consultation_id")
            /\ consultations' = DeleteRows(consultations, {consultation_id})
            /\ resp' = Response("consultation_delete", u, "ok", consultation_id,
                                <<>>, <<>>)
    /\ UNCHANGED comments
    /\ UNCHANGED ControlTables
    /\ UNCHANGED PatientState

\* POST /studies/<id>/delete (the report file apart).
\* db.session.delete(study) sets the study_id of the review requests of the
\* study (the backref of ReviewRequest.study) to NULL
study_delete(u, study_id) ==
    /\ IF study_id \notin Live(studies)
       THEN /\ resp' = Response("study_delete", u, "not_found", study_id, <<>>, <<>>)
            /\ UNCHANGED <<studies, reviews>>
       ELSE IF studies[study_id].created_by_id # u
       THEN /\ resp' = Response("study_delete", u, "forbidden", study_id, <<>>, <<>>)
            /\ UNCHANGED <<studies, reviews>>
       ELSE /\ reviews' = SetNull(reviews, Referring(reviews, "study_id", study_id),
                                  "study_id")
            /\ studies' = DeleteRows(studies, {study_id})
            /\ resp' = Response("study_delete", u, "ok", study_id, <<>>, <<>>)
    /\ UNCHANGED <<consultations, comments>>
    /\ UNCHANGED ControlTables
    /\ UNCHANGED PatientState
\* ------------------------------------------------------------------------
\* Patients: numbers read from forms
\* ------------------------------------------------------------------------
\* A nullable number or flag is <<>> for None and <<v>> for the value v.  An int is
\* an integer; a float is the decimal fraction [num, den] it was written as
\* or rounded to, den a power of ten and num / den in lowest decimal terms.
NoValue == <<>>

Some(v) == <<v>>

RECURSIVE Dec(_, _)
Dec(num, den) ==
    IF den > 1 /\ num % 10 = 0 THEN Dec(num \div 10, den \div 10)
    ELSE [num |-> num, den |-> den]

RECURSIVE Pow10(_)
Pow10(k) == IF k = 0 THEN 1 ELSE 10 * Pow10(k - 1)

\* position of the first "." of s, or 0
DotAt(s) ==
    IF \E i \in DOMAIN s : s[i] = "."
    THEN CHOOSE i \in DOMAIN s : s[i] = "." /\ \A j \in 1..(i - 1) : s[j] # "."
    ELSE 0

\* float(value) for text made of blanks, a sign, digits and points:
\* surrounding blanks and one sign are accepted, then digits with at most
\* one point and at least one digit; anything else raises ValueError.
PyFloat(value) ==
    LET t == Strip(value)
        signed == t # <<>> /\ Head(t) \in {"+", "-"}
        body == IF signed THEN Tail(t) ELSE t
        dot == DotAt(body)
        whole == IF dot = 0 THEN body ELSE SubSeq(body, 1, dot - 1)
        frac == IF dot = 0 THEN <<>> ELSE SubSeq(body, dot + 1, Len(body))
        digits == whole \o frac
        good == digits # <<>> /\ \A i \in DOMAIN digits : IsDigit(digits[i])
    IN  IF ~good THEN [ok |-> FALSE, val |-> Dec(0, 1)]
        ELSE [ok |-> TRUE,
              val |-> Dec(IF signed /\ Head(t) = "-" THEN 0 - DigitsValue(digits, 0)
                          ELSE DigitsValue(digits, 0),
                          Pow10(Len(frac)))]

_to_int(value) ==
    IF Falsy(value) THEN NoValue
    ELSE IF PyInt(value).ok THEN Some(PyInt(value).val) ELSE NoValue

_to_float(value) ==
    IF Falsy(value) THEN NoValue
    ELSE IF PyFloat(value).ok THEN Some(PyFloat(value).val) ELSE NoValue

\* str.lower() on the letters the checkbox values are written with
LowerChar(c) ==
    IF c = "O" THEN "o" ELSE IF c = "N" THEN "n" ELSE c

Lower(s) == [i \in DOMAIN s |-> LowerChar(s[i])]

_checkbox_to_bool(value) ==
    IF value = NoneText THEN FALSE
    ELSE Lower(value) \in {<<"o", "n">>, <<"t", "r", "u", "e">>, <<"1">>,
                           <<"y", "e", "s">>}

\* `if x` for a nullable int and for a nullable float
TruthyInt(x) == x # NoValue /\ x[1] # 0

TruthyFloat(x) == x # NoValue /\ x[1].num # 0

\* round(n / d, 2) for d > 0, as the integers q with q / 100 nearest to
\* n / d: one integer, or two when n / d lies midway between two
\* hundredths, where the binary float that the program rounds may lie on
\* either side.
Round2(n, d) ==
    LET q == (100 * n) \div d
    IN  {r \in {q, q + 1} :
            2 * (IF r * d >= 100 * n THEN r * d - 100 * n ELSE 100 * n - r * d) <= d}

\* round((cigs / 20.0) * smoking_years, 2)
PackYears(cigs, years) ==
    {Some(Dec(q, 100)) : q \in Round2(cigs * years.num, 20 * years.den)}

\* _compute_bmi: None without a truthy weight and a truthy height and for a
\* height that is not above zero, else round(weight / (height / 100) ** 2, 2)
_compute_bmi(weight_kg, height_cm) ==
    IF ~TruthyFloat(weight_kg) \/ ~TruthyFloat(height_cm) THEN {NoValue}
    ELSE IF height_cm[1].num <= 0 THEN {NoValue}
    ELSE {Some(Dec(q, 100)) :
            q \in Round2(weight_kg[1].num * height_cm[1].den * height_cm[1].den * 10000,
                         weight_kg[1].den * height_cm[1].num * height_cm[1].num)}

\* ------------------------------------------------------------------------
\* Patients: populate_patient_from_form
\* ------------------------------------------------------------------------
\* (form.get(name) or "").strip()
StripOrEmpty(value) == IF Falsy(value) THEN <<>> ELSE Strip(value)

\* Patient(created_by=current_user) before it is populated; the smoking
\* columns, weight, height and bmi were added to the table later (see
\* PATIENT_EXTRA_COLUMNS), so that a row of an earlier schema holds NULL
\* there as well.
NewPatient(created_by) ==
    [created_by_id |-> created_by,
     full_name |-> NoneText,
     dni |-> NoneText,
     email |-> NoneText,
     age |-> NoValue,
     smoking_current |-> NoValue,
     smoking_previous |-> NoValue,
     smoking_cigarettes_per_day |-> NoValue,
     smoking_years |-> NoValue,
     smoking_pack_years |-> NoValue,
     respiratory_conditions |-> NoneText,
     weight_kg |-> NoValue,
     height_cm |-> NoValue,
     bmi |-> NoValue,
     created_at |-> NULL,
     updated_at |-> NULL,
     updated_by_id |-> NULL]

\* a variant of NeverSmoked that keeps the two counts that were submitted
NeverSmoked_keep_counts(p) ==
    [p EXCEPT !.smoking_current = Some(FALSE),
              !.smoking_previous = Some(FALSE),
              !.smoking_pack_years = Some(Dec(0, 1))]

\* the branch `if smoking_never:`
NeverSmoked(p) ==
    [p EXCEPT !.smoking_current = Some(FALSE),
              !.smoking_previous = Some(FALSE),
              !.smoking_pack_years = Some(Dec(0, 1)),
              !.smoking_years = NoValue,
              !.smoking_cigarettes_per_day = NoValue]

\* the smoking fields as read from the form, before the branches
SmokingAsSubmitted(p, form) ==
    [p EXCEPT !.smoking_current = Some(_checkbox_to_bool(form.smoking_current)),
              !.smoking_previous = Some(_checkbox_to_bool(form.smoking_previous)),
              !.smoking_cigarettes_per_day = _to_int(form.smoking_cigarettes_per_day),
              !.smoking_years = _to_float(form.smoking_years)]

\* the values smoking_pack_years can take in the branch `else:`
SmokingPackYears(cigs, years, pack_years_input) ==
    IF TruthyInt(cigs) /\ TruthyFloat(years)
    THEN PackYears(cigs[1], years[1])
    ELSE {pack_years_input}

\* the smoking block of populate_patient_from_form: the rows it can leave
PopulateSmoking(p, form) ==
    IF _checkbox_to_bool(form.smoking_never)
    THEN {NeverSmoked(SmokingAsSubmitted(p, form))}
    ELSE {[SmokingAsSubmitted(p, form) EXCEPT !.smoking_pack_years = py] :
             py \in SmokingPackYears(_to_int(form.smoking_cigarettes_per_day),
                                     _to_float(form.smoking_years),
                                     _to_float(form.smoking_pack_years))}

\* the other fields of populate_patient_from_form that this model reads
PopulateOther(p, form) ==
    {[p EXCEPT !.full_name = StripOrEmpty(form.full_name),
               !.dni = StripOrNone(form.dni),
               !.age = _to_int(form.age),
               !.email = StripOrNone(form.email),
               !.respiratory_conditions = _serialize_list(form.respiratory_conditions),
               !.weight_kg = _to_float(form.weight_kg),
               !.height_cm = _to_float(form.height_cm),
               !.bmi = b] :
        b \in _compute_bmi(_to_float(form.weight_kg), _to_float(form.height_cm))}

\* a variant of StampPatient that stamps the creation on every submission
StampPatient_restamp(p, creator, now) ==
    [p EXCEPT !.created_at = now,
              !.updated_at = now,
              !.created_by_id = IF creator # NULL THEN creator ELSE @,
              !.updated_by_id = IF creator # NULL THEN creator ELSE @]

\* the last lines of populate_patient_from_form: created_at and created_by
\* are set when they are empty, updated_at and updated_by always (the user
\* fields only when a creator is passed)
StampPatient(p, creator, now) ==
    [p EXCEPT !.created_at = IF @ = NULL THEN now ELSE @,
              !.updated_at = now,
              !.created_by_id = IF creator # NULL /\ @ = NULL THEN creator ELSE @,
              !.updated_by_id = IF creator # NULL THEN creator ELSE @]

\* populate_patient_from_form(patient, form, creator), with the time that
\* utcnow() returns to it: the rows it can leave (more than one only where a
\* rounding falls midway)
populate_patient_from_form(patient, form, creator, now) ==
    {StampPatient(r, creator, now) :
        r \in UNION {PopulateOther(s, form) : s \in PopulateSmoking(patient, form)}}

\* a form with no field posted
EmptyPatientForm ==
    [full_name |-> NoneText, dni |-> NoneText, email |-> NoneText,
     consent_given |-> NoneText, consent_date |-> NoneText, age |-> NoneText,
     smoking_never |-> NoneText, smoking_current |-> NoneText,
     smoking_previous |-> NoneText, smoking_cigarettes_per_day |-> NoneText,
     smoking_years |-> NoneText, smoking_pack_years |-> NoneText,
     respiratory_conditions |-> <<>>,
     weight_kg |-> NoneText, height_cm |-> NoneText]

\* ------------------------------------------------------------------------
\* Patients: patient_new and patient_edit
\* ------------------------------------------------------------------------
\* worker threads that serve requests at the same time
Threads == 1..NThreads

Idle == [pc |-> "idle"]

NoThreads == [t \in Threads |-> Idle]

\* a variant of ExistingByDni that finds no row
ExistingByDni_none(rows, dni) == {}

\* the rows that Patient.query.filter(Patient.dni == dni) selects
ExistingByDni(rows, dni) == {id \in DOMAIN rows : rows[id].dni = dni}

\* a variant of UniqueViolation for a table without the constraint
UniqueViolation_unchecked(rows, id, dni) == FALSE

\* the UNIQUE constraint of patients.dni, as the INSERT or UPDATE of the row
\* id (NULL for a new row) with this dni meets it at commit
UniqueViolation(rows, id, dni) ==
    /\ dni # NoneText
    /\ \E j \in DOMAIN rows : j # id /\ rows[j].dni = dni

\* the required fields of patient_new that are missing
MissingFields(form) ==
    \/ StripOrEmpty(form.full_name) = <<>>
    \/ StripOrEmpty(form.dni) = <<>>
    \/ StripOrEmpty(form.email) = <<>>
    \/ ~_checkbox_to_bool(form.consent_given)
    \/ (_checkbox_to_bool(form.consent_given) /\ StripOrEmpty(form.consent_date) = <<>>)

\* now: the time the request stamped on the row, NULL when it stamped none
PatientResponse(op, user, outcome, result, logged, form, now) ==
    Response(op, user, outcome, result, logged, <<>>) @@ [form |-> form, now |-> now]

\* POST /patients/new up to the SELECT by dni: the form is validated, the
\* table is searched, and the request either ends here or goes on to insert.
\* temp_patient is never added to the session.
patient_new_check(t, u, form) ==
    /\ threads[t].pc = "idle"
    /\ IF MissingFields(form)
       THEN /\ resp' = PatientResponse("patient_new", u, "invalid", NULL, <<>>, form,
                                            NULL)
            /\ UNCHANGED threads
       ELSE IF ExistingByDni(patients, StripOrEmpty(form.dni)) # {}
       THEN /\ \E existing \in ExistingByDni(patients, StripOrEmpty(form.dni)) :
                 resp' = PatientResponse("patient_new", u, "duplicate", existing,
                                         <<>>, form, NULL)
            /\ UNCHANGED threads
       ELSE /\ threads' = [threads EXCEPT ![t] = [pc |-> "insert", user |-> u,
                                                   form |-> form]]
            /\ UNCHANGED resp
    /\ UNCHANGED <<patients, screening, db_init, user_table, sessions>>
    /\ UNCHANGED <<controls, followups, patient_email>>
    /\ UNCHANGED ReviewTables

\* POST /patients/new from db.session.add(patient) on: the INSERT is
\* committed unless the UNIQUE constraint of dni refuses it (IntegrityError)
patient_new_commit(t, now) ==
    /\ threads[t].pc = "insert"
    /\ \E row \in populate_patient_from_form(NewPatient(threads[t].user),
                                             threads[t].form, threads[t].user, now) :
          IF UniqueViolation(patients, NULL, row.dni)
          THEN /\ resp' = PatientResponse("patient_new", threads[t].user, "error",
                                          NULL, <<>>, threads[t].form, NULL)
               /\ UNCHANGED patients
          ELSE /\ patients' = Append(patients, row)
               /\ resp' = PatientResponse("patient_new", threads[t].user, "ok",
                                          Len(patients) + 1,
                                          <<[action |-> "patient_create",
                                             patient_id |-> Len(patients) + 1]>>,
                                          threads[t].form, now)
    /\ threads' = [threads EXCEPT ![t] = Idle]
    /\ UNCHANGED <<screening, db_init, user_table, sessions>>
    /\ UNCHANGED <<controls, followups, patient_email>>
    /\ UNCHANGED ReviewTables

\* POST /patients/<id>/edit (the genogram file is not part of this model):
\* the row is populated and committed; the UPDATE fails on the UNIQUE
\* constraint of dni, and then nothing is changed
patient_edit(u, patient_id, form, now) ==
    /\ patient_id \in DOMAIN patients
    /\ \E row \in populate_patient_from_form(patients[patient_id], form, u, now) :
          IF UniqueViolation(patients, patient_id, row.dni)
          THEN /\ resp' = PatientResponse("patient_edit", u, "error", patient_id,
                                          <<>>, form, NULL)
               /\ UNCHANGED patients
          ELSE /\ patients' = [patients EXCEPT ![patient_id] = row]
               /\ resp' = PatientResponse("patient_edit", u, "ok", patient_id,
                                          <<[action |-> "patient_update",
                                             patient_id |-> patient_id]>>,
                                          form, now)
    /\ UNCHANGED <<threads, screening, db_init, user_table, sessions>>
    /\ UNCHANGED <<controls, followups, patient_email>>
    /\ UNCHANGED ReviewTables

\* a patient as patient_new registers it
RegisteredPatient ==
    CHOOSE p \in populate_patient_from_form(
                     NewPatient(1),
                     [EmptyPatientForm EXCEPT !.full_name = <<"n">>, !.dni = <<"7">>,
                                              !.email = <<"e">>,
                                              !.consent_given = <<"o", "n">>,
                                              !.consent_date = <<"d">>],
                     1, 1) : TRUE

\* ------------------------------------------------------------------------
\* The screening page of a patient
\* ------------------------------------------------------------------------
\* `if x` for a nullable flag
TruthyBool(x) == x # NoValue /\ x[1]

\* a variant of AgeOk that asks for more than fifty years
AgeOk_over_fifty(age) == age # NoValue /\ age[1] > 50

\* age is not None and age >= 50
AgeOk(age) == age # NoValue /\ age[1] >= 50

\* pack_years is not None and pack_years >= 20
IpaOk(pack_years) == pack_years # NoValue /\ pack_years[1].num >= 20 * pack_years[1].den

\* _compute_eligibility(p): the verdict and the reasons shown, each reason
\* with the criterion it is about, whether it is met and the value printed
_compute_eligibility(p) ==
    [met |-> /\ AgeOk(p.age)
             /\ (TruthyBool(p.smoking_current) \/ TruthyBool(p.smoking_previous))
             /\ IpaOk(p.smoking_pack_years),
     reasons |-> <<[about |-> "age", met |-> AgeOk(p.age), shown |-> p.age],
                   [about |-> "smoking",
                    met |-> TruthyBool(p.smoking_current)
                            \/ TruthyBool(p.smoking_previous),
                    shown |-> NoValue],
                   [about |-> "ipa", met |-> IpaOk(p.smoking_pack_years),
                    shown |-> p.smoking_pack_years]>>]

\* the page rendered by GET /patients/<id>/screening
ScreeningPage(u, patient_id) ==
    Response("patient_screening", u, "ok", patient_id, <<>>, <<>>)
    @@ [eligibility |-> _compute_eligibility(patients[patient_id])]

\* GET /patients/<id>/screening served without another request in between:
\* the Screening row of the patient is created when there is none
patient_screening_get(u, patient_id) ==
    /\ patient_id \in DOMAIN patients
    /\ screening' = IF screening = <<>> THEN <<NewScreening>> ELSE screening
    /\ resp' = ScreeningPage(u, patient_id)
    /\ UNCHANGED <<controls, followups, patient_email>>
    /\ UNCHANGED PatientState
    /\ UNCHANGED ReviewTables

\* GET /patients/<id>/screening, first statement: the SELECT of the
\* Screening row of the patient
patient_screening_query(t, u, patient_id) ==
    /\ threads[t].pc = "idle"
    /\ patient_id \in DOMAIN patients
    /\ threads' = [threads EXCEPT ![t] =
                      [pc |-> IF screening = <<>> THEN "create" ELSE "render",
                       user |-> u, patient_id |-> patient_id]]
    /\ UNCHANGED <<patients, db_init, user_table, sessions, resp>>
    /\ UNCHANGED ControlTables
    /\ UNCHANGED ReviewTables

\* `if not screening:` Screening(patient=patient) is added and committed;
\* no constraint of the table screenings refuses a second row of a patient
patient_screening_create(t) ==
    /\ threads[t].pc = "create"
    /\ screening' = Append(screening, NewScreening)
    /\ threads' = [threads EXCEPT ![t].pc = "render"]
    /\ UNCHANGED <<patients, db_init, user_table, sessions, resp>>
    /\ UNCHANGED <<controls, followups, patient_email>>
    /\ UNCHANGED ReviewTables

\* the rest of the GET request: the page is rendered
patient_screening_render(t) ==
    /\ threads[t].pc = "render"
    /\ resp' = ScreeningPage(threads[t].user, threads[t].patient_id)
    /\ threads' = [threads EXCEPT ![t] = Idle]
    /\ UNCHANGED <<patients, db_init, user_table, sessions>>
    /\ UNCHANGED ControlTables
    /\ UNCHANGED ReviewTables

\* ------------------------------------------------------------------------
\* The before-request hook _init_db_if_needed
\* ------------------------------------------------------------------------
\* done: _DB_INIT_DONE; lock: the thread that holds _DB_INIT_LOCK, or NULL;
\* runs: calls of create_tables_and_admin made by the hook; finished: those
\* that have ended, by returning or by raising
DbFresh == [done |-> FALSE, lock |-> NULL, runs |-> 0, finished |-> 0, failed |-> FALSE]

\* the process after its first request has been served
DbInitialised == [done |-> TRUE, lock |-> NULL, runs |-> 1, finished |-> 1, failed |-> FALSE]

\* a variant of SecondCheck that does not look at the flag again
SecondCheck_skipped(done) == FALSE

\* `if _DB_INIT_DONE: return` inside `with _DB_INIT_LOCK:`
SecondCheck(done) == done

\* a request arrives and the hook reads _DB_INIT_DONE without the lock
hook_first_check(t, request) ==
    /\ threads[t].pc = "idle"
    /\ threads' = [threads EXCEPT ![t] =
                      [pc |-> IF db_init.done THEN "handler" ELSE "wait_lock",
                       request |-> request]]
    /\ UNCHANGED db_init

\* `with _DB_INIT_LOCK:` is entered once the lock is free
hook_acquire(t) ==
    /\ threads[t].pc = "wait_lock"
    /\ db_init.lock = NULL
    /\ db_init' = [db_init EXCEPT !.lock = t]
    /\ threads' = [threads EXCEPT ![t].pc = "locked"]

\* under the lock: return (releasing the lock) when the flag is set, else
\* call create_tables_and_admin
hook_second_check(t) ==
    /\ threads[t].pc = "locked"
    /\ IF SecondCheck(db_init.done)
       THEN /\ db_init' = [db_init EXCEPT !.lock = NULL]
            /\ threads' = [threads EXCEPT ![t].pc = "handler"]
       ELSE /\ db_init' = [db_init EXCEPT !.runs = @ + 1]
            /\ threads' = [threads EXCEPT ![t].pc = "running"]

\* create_tables_and_admin returns or raises; `except Exception` prints
hook_run_ends(t, raised) ==
    /\ threads[t].pc = "running"
    /\ db_init' = [db_init EXCEPT !.finished = @ + 1, !.failed = @ \/ raised]
    /\ threads' = [threads EXCEPT ![t].pc = "finally"]

\* a variant of FlagAfterRun that sets the flag only after a call that returned
FlagAfterRun_on_success(failed) == ~failed

\* the flag the finally clause leaves, whether the call returned or raised
FlagAfterRun(failed) == TRUE

\* finally: _DB_INIT_DONE = True
hook_set_done(t) ==
    /\ threads[t].pc = "finally"
    /\ db_init' = [db_init EXCEPT !.done = FlagAfterRun(db_init.failed)]
    /\ threads' = [threads EXCEPT ![t].pc = "unlock"]

\* the with block is left and the hook returns
hook_release(t) ==
    /\ threads[t].pc = "unlock"
    /\ db_init' = [db_init EXCEPT !.lock = NULL]
    /\ threads' = [threads EXCEPT ![t].pc = "handler"]

\* the view function runs and the request ends
handler_runs(t) ==
    /\ threads[t].pc = "handler"
    /\ threads' = [threads EXCEPT ![t] = Idle]
    /\ UNCHANGED db_init

\* ------------------------------------------------------------------------
\* study_new and consultation_new as a worker thread serves them: first
\* everything up to db.session.commit() (the rows are added and flushed
\* inside the transaction, create_review_request writes its audit entry
\* and sends its mail), then the commit and what follows it
\* ------------------------------------------------------------------------
\* the requests that have flushed rows and not yet committed; such a request
\* holds the write lock of the database, so no other request flushes
Writing == {t \in Threads : threads[t].pc = "commit"}

\* what create_review_request does for study_new
StudyReviewOutcomes(u, review_recips) ==
    IF review_recips # <<>>
    THEN CreateReviewRequestOutcomes(reviews, u, review_recips, Len(studies) + 1, NULL)
    ELSE {[rows |-> reviews, rr |-> NULL, logged |-> <<>>, mails |-> <<>>,
           raised |-> FALSE]}

\* POST /patients/<id>/studies/new up to the commit
study_new_flush(t, u, review_recipients) ==
    /\ threads[t].pc = "idle"
    /\ Writing = {}
    /\ _parse_recipient_ids(review_recipients) # <<>> => Len(reviews) < MaxReviews
    /\ \E r \in StudyReviewOutcomes(u, _parse_recipient_ids(review_recipients)) :
          IF r.raised
          THEN /\ resp' = Response("study_new", u, "error", NULL, r.logged, r.mails)
               /\ UNCHANGED threads
          ELSE /\ threads' = [threads EXCEPT ![t] =
                                 [pc |-> "commit", op |-> "study_new", user |-> u,
                                  study |-> [created_by_id |-> u,
                                             consultation_id |-> NULL],
                                  r |-> r]]
               /\ UNCHANGED resp
    /\ UNCHANGED <<patients, db_init, user_table, sessions>>
    /\ UNCHANGED ReviewTables
    /\ UNCHANGED ControlTables

\* db.session.commit() of study_new and the redirect
study_new_commit(t) ==
    /\ threads[t].pc = "commit"
    /\ threads[t].op = "study_new"
    /\ studies' = Append(studies, threads[t].study)
    /\ reviews' = threads[t].r.rows
    /\ resp' = Response("study_new", threads[t].user, "ok", threads[t].r.rr,
                        threads[t].r.logged, threads[t].r.mails)
    /\ threads' = [threads EXCEPT ![t] = Idle]
    /\ UNCHANGED <<consultations, comments>>
    /\ UNCHANGED <<patients, db_init, user_table, sessions>>
    /\ UNCHANGED ControlTables

\* consultation_new from create_review_request to the commit, given the
\* rows it has added to the session
ConsultationNewFlush(t, u, form, consultation, created, with_cr, cr, review_recips) ==
    /\ Writing = {}
    /\ with_cr => Len(controls) < MaxControls
    /\ review_recips # <<>> => Len(reviews) < MaxReviews
    /\ \E r \in ConsultationReviewOutcomes(u, review_recips, StudyForReview(created),
                                           Len(consultations) + 1) :
          IF r.raised
          THEN /\ resp' = ConsultationResponse(u, "error", NULL, r.logged, r.mails)
               /\ UNCHANGED threads
          ELSE /\ threads' = [threads EXCEPT ![t] =
                                 [pc |-> "commit", op |-> "consultation_new",
                                  user |-> u, form |-> form,
                                  consultation |-> consultation, created |-> created,
                                  with_cr |-> with_cr, cr |-> cr, r |-> r]]
               /\ UNCHANGED resp

\* POST /patients/<id>/consultations/new up to the commit
consultation_new_flush(t, u, patient_id, form) ==
    /\ threads[t].pc = "idle"
    /\ IF patient_id \notin Live(patients)
       THEN /\ resp' = ConsultationResponse(u, "not_found", NULL, <<>>, <<>>)
            /\ UNCHANGED threads
       ELSE IF Falsy(form.date)
       THEN /\ resp' = ConsultationResponse(u, "invalid", NULL, <<>>, <<>>)
            /\ UNCHANGED threads
       ELSE ConsultationNewFlush(
                t, u, form,
                NewConsultation(u, patient_id, form.date),
                StudiesCreated(form, NewConsultationCtx(u, patient_id, form)),
                ControlRequested(form),
                NewControlReminder(u, Len(consultations) + 1,
                                   StripOrNone(form.control_date),
                                   StripOrNone(form.control_extra_emails)),
                _parse_recipient_ids(form.review_recipients))
    /\ UNCHANGED <<patients, db_init, user_table, sessions>>
    /\ UNCHANGED ReviewTables
    /\ UNCHANGED ControlTables

\* db.session.commit() of consultation_new, then notify_control_reminder
\* and the redirect
consultation_new_commit(t, env) ==
    /\ threads[t].pc = "commit"
    /\ threads[t].op = "consultation_new"
    /\ consultations' = Append(consultations, threads[t].consultation)
    /\ studies' = studies \o threads[t].created
    /\ controls' = IF threads[t].with_cr THEN Append(controls, threads[t].cr)
                   ELSE controls
    /\ reviews' = threads[t].r.rows
    /\ resp' = ConsultationResponse(
           threads[t].user, "ok",
           [review |-> threads[t].r.rr,
            control |-> IF threads[t].with_cr THEN Len(controls) + 1 ELSE NULL,
            consultation |-> Len(consultations) + 1,
            studies |-> [i \in DOMAIN threads[t].created |-> Len(studies) + i]],
           threads[t].r.logged,
           threads[t].r.mails
               \o (IF threads[t].with_cr
                   THEN notify_control_reminder(threads[t].cr, patient_email, env)
                   ELSE <<>>))
    /\ threads' = [threads EXCEPT ![t] = Idle]
    /\ UNCHANGED <<comments, screening, followups, patient_email>>
    /\ UNCHANGED <<patients, db_init, user_table, sessions>>
\* ------------------------------------------------------------------------
\* Accounts: login, the session's user, approval and rejection
\* ------------------------------------------------------------------------
UserStatuses == {"pending", "approved", "rejected"}

\* load_user: the row of the id the session holds, whatever its status
\* (users are never deleted here, so the row exists)
load_user(user_id) == user_id

\* current_user of a request made with the session s; NULL stands for the
\* anonymous user
current_user(s) == IF sessions[s] = NULL THEN NULL ELSE load_user(sessions[s])

\* @login_required lets the view run when current_user.is_authenticated;
\* User takes is_authenticated and is_active from UserMixin, which answer True
\* for every loaded row
login_required(s) == current_user(s) # NULL

\* the frame of the account handlers
AccountFrame ==
    /\ UNCHANGED ReviewTables
    /\ UNCHANGED ControlTables
    /\ UNCHANGED <<patients, threads, db_init>>

\* POST /login; user: the row found by username or email, or NULL
login(s, user, password_ok) ==
    /\ IF user = NULL \/ ~password_ok
       THEN /\ resp' = Response("login", NULL, "bad_credentials", user, <<>>, <<>>)
            /\ UNCHANGED sessions
       ELSE IF user_table[user].status # "approved"
       THEN /\ resp' = Response("login", NULL, "not_approved", user, <<>>, <<>>)
            /\ UNCHANGED sessions
       ELSE /\ sessions' = [sessions EXCEPT ![s] = user]
            /\ resp' = Response("login", user, "ok", user,
                                <<[action |-> "user_login", user_id |-> user]>>, <<>>)
    /\ UNCHANGED user_table
    /\ AccountFrame

\* GET /logout
logout(s) ==
    /\ IF ~login_required(s)
       THEN /\ resp' = Response("logout", NULL, "login_redirect", NULL, <<>>, <<>>)
            /\ UNCHANGED sessions
       ELSE /\ sessions' = [sessions EXCEPT ![s] = NULL]
            /\ resp' = Response("logout", current_user(s), "ok", NULL,
                                <<[action |-> "user_logout",
                                   user_id |-> current_user(s)]>>, <<>>)
    /\ UNCHANGED user_table
    /\ AccountFrame

\* GET /
dashboard(s) ==
    /\ IF ~login_required(s)
       THEN resp' = Response("dashboard", NULL, "login_redirect", NULL, <<>>, <<>>)
       ELSE resp' = Response("dashboard", current_user(s), "ok", NULL, <<>>, <<>>)
    /\ UNCHANGED Accounts
    /\ AccountFrame

\* admin_user_approve and admin_user_reject: the status they store
admin_user_set_status(op, s, user_id, status) ==
    /\ IF ~login_required(s)
       THEN /\ resp' = Response(op, NULL, "login_redirect", user_id, <<>>, <<>>)
            /\ UNCHANGED user_table
       ELSE IF user_table[current_user(s)].role # "admin"
       THEN /\ resp' = Response(op, current_user(s), "forbidden", user_id, <<>>, <<>>)
            /\ UNCHANGED user_table
       ELSE IF user_id \notin Users
       THEN /\ resp' = Response(op, current_user(s), "not_found", user_id, <<>>, <<>>)
            /\ UNCHANGED user_table
       ELSE /\ user_table' = [user_table EXCEPT ![user_id].status = status]
            /\ resp' = Response(op, current_user(s), "ok", user_id,
                                <<[action |-> IF status = "approved"
                                              THEN "user_approve" ELSE "user_reject",
                                   target_user_id |-> user_id]>>, <<>>)
    /\ UNCHANGED sessions
    /\ AccountFrame

\* GET /admin/users/<id>/approve
admin_user_approve(s, user_id) ==
    admin_user_set_status("admin_user_approve", s, user_id, "approved")

\* GET /admin/users/<id>/reject
admin_user_reject(s, user_id) ==
    admin_user_set_status("admin_user_reject", s, user_id, "rejected")

\* the views behind @login_required
LoginRequiredOps == {"logout", "dashboard", "admin_user_approve", "admin_user_reject"}

\* ------------------------------------------------------------------------
\* The daily reminders (src/reminders.py)
\* ------------------------------------------------------------------------
\* send_reminders_for_date(target_date), called by running reminders.py or
\* by importing it.  In the first loop of the function the lines from
\* `if not recipients:` on stand one level to the left of the loop body, so
\* that `continue` is outside every loop: Python refuses to compile the
\* module (SyntaxError: 'continue' not properly in loop).  Neither the
\* script nor an import gets as far as a query or an e-mail.
send_reminders_for_date(target_date) ==
    /\ resp' = Response("send_reminders_for_date", NULL, "error", NULL, <<>>, <<>>)
               @@ [target_date |-> target_date]
    /\ UNCHANGED ControlTables
    /\ UNCHANGED PatientState
    /\ UNCHANGED ReviewTables
\* ------------------------------------------------------------------------
\* Deleting a patient
\* ------------------------------------------------------------------------
\* the patient a row belongs to: the rows this model keeps without the column
\* patient_id were entered through the pages of patient 1
PatientIdOf(row) == IF "patient_id" \in DOMAIN row THEN row.patient_id ELSE 1

OfPatient(rows, patient_id) == {i \in Live(rows) : PatientIdOf(rows[i]) = patient_id}

\* the tables patient_delete works on, as one transaction sees them
DeleteTables ==
    [patients |-> patients, controls |-> controls, reviews |-> reviews,
     comments |-> comments, consultations |-> consultations, studies |-> studies,
     screening |-> screening, followups |-> followups]

\* the statements of the try block of patient_delete, in order; the case
\* presentation has no table in this model, and removing the genogram file
\* changes no row
DeleteStatements ==
    <<"control_reminders", "reviews", "case_presentation", "consultations",
      "loose_studies", "screenings", "patient", "commit">>

DeleteSteps == Len(DeleteStatements)

\* the tables after one statement
DeleteStep(db, patient_id, statement) ==
    CASE statement = "control_reminders" ->
            [db EXCEPT !.controls = DeleteRows(@, OfPatient(@, patient_id))]
      [] statement = "reviews" ->
            [db EXCEPT
                !.comments = SelectSeq(@, LAMBDA c :
                                 c.review_id \notin OfPatient(db.reviews, patient_id)),
                !.reviews = DeleteRows(@, OfPatient(@, patient_id))]
      [] statement = "consultations" ->
            [db EXCEPT
                !.studies = DeleteRows(@, {i \in Live(@) :
                                @[i].consultation_id
                                    \in OfPatient(db.consultations, patient_id)}),
                !.consultations = DeleteRows(@, OfPatient(@, patient_id))]
      [] statement = "loose_studies" ->
            [db EXCEPT
                !.studies = DeleteRows(@, {i \in OfPatient(@, patient_id) :
                                              @[i].consultation_id = NULL})]
      [] statement = "screenings" ->
            [db EXCEPT
                !.followups = DeleteRows(@, {i \in Live(@) :
                                  @[i].screening_id
                                      \in OfPatient(db.screening, patient_id)}),
                !.screening = DeleteRows(@, OfPatient(@, patient_id))]
      [] statement = "patient" ->
            [db EXCEPT !.patients = DeleteRows(@, {patient_id})]
      [] OTHER -> db

\* the tables after the first n statements
RECURSIVE AfterSteps(_, _, _)
AfterSteps(db, patient_id, n) ==
    IF n = 0 THEN db
    ELSE DeleteStep(AfterSteps(db, patient_id, n - 1), patient_id, DeleteStatements[n])

\* a variant of Rollback that leaves what the transaction had done
Rollback_keeps_work(before, work) == work

\* db.session.rollback(): the tables as they were when the transaction began
Rollback(before, work) == before

\* the tables become db
StoreTables(db) ==
    /\ patients' = db.patients
    /\ controls' = db.controls
    /\ reviews' = db.reviews
    /\ comments' = db.comments
    /\ consultations' = db.consultations
    /\ studies' = db.studies
    /\ screening' = db.screening
    /\ followups' = db.followups

\* /patients/<id>/delete; fail_step: the statement that raises (the commit
\* being the last), or 0 when none does
patient_delete(u, patient_id, fail_step) ==
    /\ IF patient_id \notin Live(patients)
       THEN /\ resp' = Response("patient_delete", u, "not_found", patient_id, <<>>, <<>>)
                           @@ [fail_step |-> fail_step]
            /\ StoreTables(DeleteTables)
       ELSE IF user_table[u].role # "admin"
       THEN /\ resp' = Response("patient_delete", u, "forbidden", patient_id, <<>>, <<>>)
                           @@ [fail_step |-> fail_step]
            /\ StoreTables(DeleteTables)
       ELSE IF fail_step # 0
       THEN /\ StoreTables(Rollback(DeleteTables,
                                    AfterSteps(DeleteTables, patient_id, fail_step - 1)))
            /\ resp' = Response("patient_delete", u, "error", patient_id, <<>>, <<>>)
                           @@ [fail_step |-> fail_step]
       ELSE /\ StoreTables(AfterSteps(DeleteTables, patient_id, DeleteSteps))
            /\ resp' = Response("patient_delete", u, "ok", patient_id,
                                <<[action |-> "patient_delete",
                                   patient_id |-> patient_id]>>, <<>>)
                           @@ [fail_step |-> fail_step]
    /\ UNCHANGED <<patient_email, threads, db_init, user_table, sessions>>
\* ------------------------------------------------------------------------
\* Initial state and specifications
\* ------------------------------------------------------------------------
Init ==
    /\ studies = <<>>
    /\ consultations = <<>>
    /\ reviews = <<>>
    /\ comments = <<>>
    /\ controls = <<>>
    /\ screening = <<>>
    /\ followups = <<>>
    /\ patient_email = NoneText
    /\ patients = <<>>
    /\ threads = NoThreads
    /\ db_init = DbInitialised
    /\ user_table = ApprovedUsers
    /\ sessions = NoSessions
    /\ resp = NoResp

StudyNew ==
    /\ Len(studies) < MaxStudies
    /\ \E u \in Users, f \in RecipientForms : study_new(u, f)

CreateReviewRequestCall ==
    \E u \in Users, f \in RecipientForms :
        create_review_request_call(u, _parse_recipient_ids(f))

ReviewResolve ==
    \E u \in Users, id \in DOMAIN reviews, now \in Times :
        review_resolve(u, id, now)

ReviewProgress ==
    \E u \in Users, id \in DOMAIN reviews : review_progress(u, id)

ReviewComment ==
    \E u \in Users, id \in DOMAIN reviews : review_comment(u, id)

ReviewCommentEdit ==
    \E u \in Users, k \in DOMAIN comments : review_comment_edit(u, k)

ReviewCommentDelete ==
    \E u \in Users, k \in DOMAIN comments : review_comment_delete(u, k)

\* creating review requests and moving them through their statuses
Next ==
    \/ StudyNew
    \/ CreateReviewRequestCall
    \/ ReviewResolve
    \/ ReviewProgress

Spec == Init /\ [][Next]_vars

\* the review workflow with its comments
NextComments ==
    \/ StudyNew
    \/ ReviewResolve
    \/ ReviewProgress
    \/ ReviewComment
    \/ ReviewCommentEdit
    \/ ReviewCommentDelete

SpecComments == Init /\ [][NextComments]_vars

\* A database that was migrated from an earlier schema holds reminders and
\* follow-ups whose created_by_id is NULL (the column was added later, see
\* ensure_screening_extra_columns); completed was added with DEFAULT 0 and
\* completed_at empty.
LegacyControls ==
    {<<[NewControlReminder(NULL, NULL, <<"d", "1">>, NoneText) EXCEPT !.status = st]>> :
        st \in {"pending", NoStatus}}

LegacyFollowups == {<<NewScreeningFollowup(NULL, 1, <<"d", "1">>)>>}

InitControls ==
    /\ studies = <<>>
    /\ consultations = <<>>
    /\ reviews = <<>>
    /\ comments = <<>>
    /\ controls \in {<<>>} \cup LegacyControls
    /\ followups \in {<<>>} \cup LegacyFollowups
    /\ screening = IF followups = <<>> THEN <<>> ELSE <<NewScreening>>
    /\ patient_email = NoneText
    /\ patients = <<RegisteredPatient>>
    /\ threads = NoThreads
    /\ db_init = DbInitialised
    /\ user_table = ApprovedUsers
    /\ sessions = NoSessions
    /\ resp = NoResp

\* consultation_new without a review request and without extra addresses
ConsultationNewControl ==
    /\ Len(consultations) < MaxConsultations
    /\ \E u \in Users,
          form \in {f \in ConsultationForms :
                       f.review_recipients = <<>> /\ f.control_extra_emails = NoneText} :
          consultation_new(u, 1, form)

ControlReminderComplete ==
    \E u \in Users, id \in DOMAIN controls, now \in Times :
        control_reminder_complete(u, id, now)

ControlReminderProgress ==
    \E u \in Users, id \in DOMAIN controls : control_reminder_progress(u, id)

PatientScreeningAddFollowup ==
    \E u \in Users, form \in FollowupForms : patient_screening_add_followup(u, form)

ScreeningFollowupComplete ==
    \E u \in Users, id \in DOMAIN followups, now \in Times :
        screening_followup_complete(u, id, now)

ScreeningFollowupProgress ==
    \E u \in Users, id \in DOMAIN followups : screening_followup_progress(u, id)

\* control reminders and screening follow-ups and their statuses
NextControls ==
    \/ ConsultationNewControl
    \/ ControlReminderComplete
    \/ ControlReminderProgress
    \/ PatientScreeningAddFollowup
    \/ ScreeningFollowupComplete
    \/ ScreeningFollowupProgress

SpecControls == InitControls /\ [][NextControls]_vars

\* The four operations that notify by e-mail, each with a valid form: a study
\* with a review request, a comment on it, a consultation that asks for a
\* control with or without a review request, and a screening follow-up.
StudyNewNotify ==
    /\ Len(studies) < MaxStudies
    /\ \E u \in Users : study_new(u, <<<<"2">>>>)

ConsultationNewNotify ==
    /\ Len(consultations) < MaxConsultations
    /\ \E u \in Users,
          form \in {f \in ConsultationForms :
                       /\ f.date # NoneText
                       /\ f.study_groups = {"func"}
                       /\ f.control_enabled = "on"
                       /\ f.control_date # <<" ">>
                       /\ f.review_recipients \in {<<>>, <<<<"9">>, <<"2">>>>}} :
          consultation_new(u, 1, form)

PatientScreeningAddFollowupNotify ==
    \E u \in Users,
       form \in {f \in FollowupForms :
                    /\ f.fu_study_type # NoneText
                    /\ f.fu_study_date # <<" ">>
                    /\ f.fu_next_control_date = NoneText
                    /\ f.fu_file = "pdf"} :
        patient_screening_add_followup(u, form)

NextNotify ==
    \/ StudyNewNotify
    \/ ReviewComment
    \/ ConsultationNewNotify
    \/ PatientScreeningAddFollowupNotify

InitNotify ==
    /\ studies = <<>>
    /\ consultations = <<>>
    /\ reviews = <<>>
    /\ comments = <<>>
    /\ controls = <<>>
    /\ followups = <<>>
    /\ screening = <<>>
    /\ patient_email \in {NoneText, <<"p">>}
    /\ patients = <<RegisteredPatient>>
    /\ threads = NoThreads
    /\ db_init = DbInitialised
    /\ user_table = ApprovedUsers
    /\ sessions = NoSessions
    /\ resp = NoResp

SpecNotify == InitNotify /\ [][NextNotify]_vars


\* Registering and editing patients, with requests served at the same time.
\* The forms differ in the DNI: absent, a number, the same number followed
\* by a blank, another number.
DniForms ==
    {[EmptyPatientForm EXCEPT !.full_name = <<"n">>, !.dni = d, !.email = <<"e">>,
                              !.consent_given = <<"o", "n">>,
                              !.consent_date = <<"d">>] :
        d \in {NoneText, <<"7">>, <<"7", " ">>, <<"8">>}}

Inserting == {t \in Threads : threads[t].pc = "insert"}

PatientNewCheck ==
    /\ Len(patients) + Cardinality(Inserting) < MaxPatients
    /\ \E t \in Threads, form \in DniForms : patient_new_check(t, 1, form)

PatientNewCommit == \E t \in Threads : patient_new_commit(t, 1)

PatientEditDni ==
    \E id \in DOMAIN patients, form \in DniForms : patient_edit(1, id, form, 1)

NextPatients ==
    \/ PatientNewCheck
    \/ PatientNewCommit
    \/ PatientEditDni

SpecPatients == Init /\ [][NextPatients]_vars

\* First requests of a process, served by threads at the same time
InitHook ==
    /\ studies = <<>>
    /\ consultations = <<>>
    /\ reviews = <<>>
    /\ comments = <<>>
    /\ controls = <<>>
    /\ followups = <<>>
    /\ screening = <<>>
    /\ patient_email = NoneText
    /\ patients = <<>>
    /\ threads = NoThreads
    /\ db_init = DbFresh
    /\ user_table = ApprovedUsers
    /\ sessions = NoSessions
    /\ resp = NoResp

HookFrame == UNCHANGED <<ReviewTables, ControlTables, patients, user_table, sessions, resp>>

HookFirstCheck ==
    /\ \E t \in Threads, request \in {"GET", "POST"} : hook_first_check(t, request)
    /\ HookFrame

HookAcquire == (\E t \in Threads : hook_acquire(t)) /\ HookFrame

HookSecondCheck == (\E t \in Threads : hook_second_check(t)) /\ HookFrame

HookRunEnds ==
    /\ \E t \in Threads, raised \in BOOLEAN : hook_run_ends(t, raised)
    /\ HookFrame

HookSetDone == (\E t \in Threads : hook_set_done(t)) /\ HookFrame

HookRelease == (\E t \in Threads : hook_release(t)) /\ HookFrame

HandlerRuns == (\E t \in Threads : handler_runs(t)) /\ HookFrame

NextHook ==
    \/ HookFirstCheck
    \/ HookAcquire
    \/ HookSecondCheck
    \/ HookRunEnds
    \/ HookSetDone
    \/ HookRelease
    \/ HandlerRuns

SpecHook == InitHook /\ [][NextHook]_vars

\* The screening page of one patient, opened by requests served at the same
\* time, and the follow-ups added from it
InitScreening ==
    /\ studies = <<>>
    /\ consultations = <<>>
    /\ reviews = <<>>
    /\ comments = <<>>
    /\ controls = <<>>
    /\ followups = <<>>
    /\ screening = <<>>
    /\ patient_email = NoneText
    /\ patients = <<RegisteredPatient>>
    /\ threads = NoThreads
    /\ db_init = DbInitialised
    /\ user_table = ApprovedUsers
    /\ sessions = NoSessions
    /\ resp = NoResp

PatientScreeningQuery ==
    \E t \in Threads, id \in DOMAIN patients : patient_screening_query(t, 1, id)

PatientScreeningCreate == \E t \in Threads : patient_screening_create(t)

PatientScreeningRender == \E t \in Threads : patient_screening_render(t)

NextScreening ==
    \/ PatientScreeningQuery
    \/ PatientScreeningCreate
    \/ PatientScreeningRender
    \/ PatientScreeningAddFollowup
    \/ ScreeningFollowupComplete

SpecScreening == InitScreening /\ [][NextScreening]_vars

\* Control reminders and follow-ups of a registered patient, and the daily
\* run of the reminders for one of two dates
InitReminders ==
    /\ studies = <<>>
    /\ consultations = <<>>
    /\ reviews = <<>>
    /\ comments = <<>>
    /\ controls = <<>>
    /\ followups = <<>>
    /\ screening = <<>>
    /\ patient_email \in {NoneText, <<"p">>}
    /\ patients = <<RegisteredPatient>>
    /\ threads = NoThreads
    /\ db_init = DbInitialised
    /\ user_table = ApprovedUsers
    /\ sessions = NoSessions
    /\ resp = NoResp

SendRemindersForDate ==
    \E target_date \in {<<"d", "1">>, <<"d", "2">>} : send_reminders_for_date(target_date)

NextReminders ==
    \/ ConsultationNewControl
    \/ ControlReminderComplete
    \/ PatientScreeningAddFollowup
    \/ SendRemindersForDate

SpecReminders == InitReminders /\ [][NextReminders]_vars

\* One patient whose record is edited, form after form, and whose screening
\* page is opened.  The forms differ in the smoking fields, or in the age
\* and the smoking status, or in weight and height, or in the checked
\* respiratory conditions.
SmokingForms ==
    {[EmptyPatientForm EXCEPT !.full_name = <<"n">>, !.dni = <<"7">>,
                              !.smoking_never = f.never,
                              !.smoking_current = f.current,
                              !.smoking_cigarettes_per_day = f.cigs,
                              !.smoking_years = f.years,
                              !.smoking_pack_years = f.pack] :
        f \in [never : {NoneText, <<"O", "N">>},
               current : {NoneText, <<"o", "n">>},
               cigs : {NoneText, <<"0">>, <<"1">>, <<"2", "0">>},
               years : {NoneText, <<"0">>, <<"0", ".", "1">>, <<"2", "0">>},
               pack : {NoneText, <<"2", "5">>}]}

AgeForms ==
    {[EmptyPatientForm EXCEPT !.full_name = <<"n">>, !.dni = <<"7">>,
                              !.age = f.age,
                              !.smoking_current = f.current,
                              !.smoking_previous = f.previous,
                              !.smoking_pack_years = f.pack] :
        f \in [age : {NoneText, <<"4", "9">>, <<"5", "0">>},
               current : {NoneText, <<"o", "n">>},
               previous : {NoneText, <<"y", "e", "s">>},
               pack : {NoneText, <<"1", "9", ".", "9", "9">>, <<"2", "0">>}]}

BodyForms ==
    {[EmptyPatientForm EXCEPT !.full_name = <<"n">>, !.dni = <<"7">>,
                              !.weight_kg = f.weight, !.height_cm = f.height] :
        f \in [weight : {NoneText, <<"x">>, <<"0">>, <<"-", "7", "0">>, <<"7", "0">>,
                         <<"7", "0", ".", "5">>},
               height : {NoneText, <<"x">>, <<"0">>, <<"-", "1", "7", "0">>,
                         <<" ", "1", "7", "0">>}]}

ListForms ==
    {[EmptyPatientForm EXCEPT !.full_name = <<"n">>, !.dni = <<"7">>,
                              !.respiratory_conditions = l] :
        l \in {<<>>, <<<<"a">>>>, <<<<>>>>, <<<<"a">>, <<>>>>, <<<<>>, <<"b">>, <<"a">>>>,
               <<<<"a", ",", "b">>>>, <<<<"q", "\"">>, <<"\\", "]">>>>,
               <<<<"[", "\"", "a", "\"", "]">>>>}}

\* a row registered under an earlier schema, the later columns NULL
LegacyPatient ==
    [NewPatient(NULL) EXCEPT !.full_name = <<"n">>, !.dni = <<"7">>, !.age = Some(60)]

InitPatientForm ==
    /\ studies = <<>>
    /\ consultations = <<>>
    /\ reviews = <<>>
    /\ comments = <<>>
    /\ controls = <<>>
    /\ followups = <<>>
    /\ screening = <<>>
    /\ patient_email = NoneText
    /\ patients \in {<<RegisteredPatient>>, <<LegacyPatient>>}
    /\ threads = NoThreads
    /\ db_init = DbInitialised
    /\ user_table = ApprovedUsers
    /\ sessions = NoSessions
    /\ resp = NoResp

PatientEditSmoking ==
    \E id \in DOMAIN patients, form \in SmokingForms : patient_edit(1, id, form, 1)

PatientEditAge ==
    \E id \in DOMAIN patients, form \in AgeForms : patient_edit(1, id, form, 1)

PatientEditBody ==
    \E id \in DOMAIN patients, form \in BodyForms : patient_edit(1, id, form, 1)

PatientEditLists ==
    \E id \in DOMAIN patients, form \in ListForms : patient_edit(1, id, form, 1)

PatientScreeningGet ==
    \E id \in DOMAIN patients : patient_screening_get(1, id)

NextPatientForm ==
    \/ PatientEditSmoking
    \/ PatientEditAge
    \/ PatientEditBody
    \/ PatientEditLists
    \/ PatientScreeningGet

SpecPatientForm == InitPatientForm /\ [][NextPatientForm]_vars

\* One patient registered and edited by any users at any times
StampForms ==
    {[EmptyPatientForm EXCEPT !.full_name = <<"n">>, !.dni = <<"7">>, !.email = <<"e">>,
                              !.consent_given = c, !.consent_date = <<"d">>] :
        c \in {NoneText, <<"o", "n">>}}

InitStamps ==
    /\ studies = <<>>
    /\ consultations = <<>>
    /\ reviews = <<>>
    /\ comments = <<>>
    /\ controls = <<>>
    /\ followups = <<>>
    /\ screening = <<>>
    /\ patient_email = NoneText
    /\ patients \in {<<>>, <<LegacyPatient>>}
    /\ threads = NoThreads
    /\ db_init = DbInitialised
    /\ user_table = ApprovedUsers
    /\ sessions = NoSessions
    /\ resp = NoResp

StampNewCheck ==
    \E t \in Threads, u \in Users, form \in StampForms : patient_new_check(t, u, form)

StampNewCommit == \E t \in Threads, now \in Times : patient_new_commit(t, now)

StampEdit ==
    \E u \in Users, id \in DOMAIN patients, form \in StampForms, now \in Times :
        patient_edit(u, id, form, now)

NextStamps ==
    \/ StampNewCheck
    \/ StampNewCommit
    \/ StampEdit

SpecStamps == InitStamps /\ [][NextStamps]_vars


\* study_new and consultation_new served by worker threads.  The study rows
\* of a group: none; one with a type and a date; an empty row before a row
\* with a type only; a blank type with a date and a second date without a
\* type; two types and no date
RowLists ==
    {[types |-> <<>>, dates |-> <<>>],
     [types |-> <<<<"t">>>>, dates |-> <<<<"2">>>>],
     [types |-> <<<<>>, <<"t">>>>, dates |-> <<<<>>, <<>>>>],
     [types |-> <<<<" ">>>>, dates |-> <<<<"2">>, <<"3">>>>],
     [types |-> <<<<"t">>, <<"t">>>>, dates |-> <<>>]}

\* the lists of a form whose func and inv rows are posted under the plain
\* names and whose img rows under the names followed by []
ListsOf(func, img, inv) ==
    [k \in ListKeys |->
        CASE k = <<"study_type", "func", "plain">> -> func.types
          [] k = <<"study_date", "func", "plain">> -> func.dates
          [] k = <<"study_type", "img", "brackets">> -> img.types
          [] k = <<"study_date", "img", "brackets">> -> img.dates
          [] k = <<"study_type", "inv", "plain">> -> inv.types
          [] k = <<"study_date", "inv", "plain">> -> inv.dates
          [] OTHER -> <<>>]

StudyRowForms ==
    {[date |-> <<"d">>,
      study_groups |-> groups,
      control_enabled |-> "absent",
      control_date |-> NoneText,
      control_extra_emails |-> NoneText,
      review_recipients |-> rd.recipients,
      lists |-> ListsOf(func, img, inv),
      study_description |-> [g \in Range(StudyGroups) |->
                                CASE g = "func" -> rd.desc
                                  [] g = "img" -> <<"y">>
                                  [] OTHER -> NoneText]] :
        groups \in {{}, {"func"}, {"img"}, {"func", "inv"}, {"func", "img", "inv"}},
        func \in RowLists,
        img \in {r \in RowLists : Len(r.types) <= 1 /\ Len(r.dates) <= 1},
        inv \in {r \in RowLists : Len(r.types) < Len(r.dates)},
        rd \in {[recipients |-> <<>>, desc |-> <<" ">>],
                [recipients |-> <<<<"2">>>>, desc |-> <<" ", "x">>]}}

ControlFieldForms ==
    {[date |-> date,
      study_groups |-> groups,
      control_enabled |-> enabled,
      control_date |-> control_date,
      control_extra_emails |-> NoneText,
      review_recipients |-> <<>>,
      lists |-> NoLists,
      study_description |-> NoDescriptions] :
        date \in {NoneText, <<"d">>},
        groups \in {{}, {"func"}, {"img"}, {"inv"}},
        enabled \in {"absent", "on", "yes"},
        control_date \in {NoneText, <<" ">>, <<"d", "1">>}}

SubmitForms == StudyRowForms \cup ControlFieldForms

InitSubmit ==
    /\ studies = <<>>
    /\ consultations = <<>>
    /\ reviews = <<>>
    /\ comments = <<>>
    /\ controls = <<>>
    /\ followups = <<>>
    /\ screening = <<>>
    /\ patient_email = NoneText
    /\ patients = <<RegisteredPatient>>
    /\ threads = NoThreads
    /\ db_init = DbInitialised
    /\ user_table = ApprovedUsers
    /\ sessions = NoSessions
    /\ resp = NoResp

StudyNewFlush ==
    /\ Len(studies) < MaxStudies
    /\ \E t \in Threads, f \in {<<>>, <<<<"2">>>>} : study_new_flush(t, 2, f)

StudyNewCommit == \E t \in Threads : study_new_commit(t)

ConsultationNewBegin ==
    /\ Len(consultations) < MaxConsultations
    /\ \E t \in Threads, patient_id \in 1..MaxPatients, form \in SubmitForms :
          consultation_new_flush(t, 1, patient_id, form)

ConsultationNewCommit ==
    \E t \in Threads, env \in {"ok", "send_error"} : consultation_new_commit(t, env)

NextSubmit ==
    \/ StudyNewFlush
    \/ StudyNewCommit
    \/ ConsultationNewBegin
    \/ ConsultationNewCommit

SpecSubmit == InitSubmit /\ [][NextSubmit]_vars


\* Consultations and studies created, edited and deleted
ReferenceForms ==
    {[date |-> <<"d">>,
      study_groups |-> {"func"},
      control_enabled |-> enabled,
      control_date |-> <<"d", "1">>,
      control_extra_emails |-> NoneText,
      review_recipients |-> recipients,
      lists |-> ListsOf(func, func, func),
      study_description |-> NoDescriptions] :
        enabled \in {"absent", "on"},
        recipients \in {<<>>, <<<<"2">>>>},
        func \in {r \in RowLists : Len(r.types) <= 1 /\ Len(r.dates) <= 1}}

InitReferences ==
    /\ studies = <<>>
    /\ consultations = <<>>
    /\ reviews = <<>>
    /\ comments = <<>>
    /\ controls = <<>>
    /\ followups = <<>>
    /\ screening = <<>>
    /\ patient_email = NoneText
    /\ patients = <<RegisteredPatient>>
    /\ threads = NoThreads
    /\ db_init = DbInitialised
    /\ user_table = ApprovedUsers
    /\ sessions = NoSessions
    /\ resp = NoResp

ConsultationNewReferences ==
    /\ Len(consultations) < MaxConsultations
    /\ \E form \in ReferenceForms : consultation_new(1, 1, form)
    /\ Len(studies') <= MaxStudyRows

ConsultationEdit ==
    /\ \E u \in {1, 2}, id \in DOMAIN consultations, form \in ReferenceForms :
          consultation_edit(u, id, form)
    /\ Len(studies') <= MaxStudyRows

ConsultationDelete ==
    \E u \in {1, 2}, id \in DOMAIN consultations : consultation_delete(u, id)

StudyNewReferences ==
    /\ Len(studies) < MaxStudyRows
    /\ Len(reviews) < MaxReviews
    /\ study_new(1, <<<<"2">>>>)

StudyDelete == \E u \in {1, 2}, id \in DOMAIN studies : study_delete(u, id)

NextReferences ==
    \/ ConsultationNewReferences
    \/ ConsultationEdit
    \/ ConsultationDelete
    \/ StudyNewReferences
    \/ StudyDelete

SpecReferences == InitReferences /\ [][NextReferences]_vars

\* Users registered and approved or not, logging in and out of two browsers
\* while the administrator approves and rejects them
InitAccounts ==
    /\ studies = <<>>
    /\ consultations = <<>>
    /\ reviews = <<>>
    /\ comments = <<>>
    /\ controls = <<>>
    /\ followups = <<>>
    /\ screening = <<>>
    /\ patient_email = NoneText
    /\ patients = <<>>
    /\ threads = NoThreads
    /\ db_init = DbInitialised
    /\ user_table \in {[u \in Users |-> [role |-> IF u = 1 THEN "admin" ELSE "medico",
                                         status |-> IF u = 1 THEN "approved" ELSE st[u]]] :
                            st \in [Users -> {"pending", "approved"}]}
    /\ sessions = NoSessions
    /\ resp = NoResp

Login ==
    \E s \in Sessions, user \in Users \cup {NULL}, password_ok \in BOOLEAN :
        login(s, user, password_ok)

Logout == \E s \in Sessions : logout(s)

Dashboard == \E s \in Sessions : dashboard(s)

AdminUserApprove == \E s \in Sessions, user_id \in 1..(NUsers + 1) : admin_user_approve(s, user_id)

AdminUserReject == \E s \in Sessions, user_id \in 1..(NUsers + 1) : admin_user_reject(s, user_id)

NextAccounts ==
    \/ Login
    \/ Logout
    \/ Dashboard
    \/ AdminUserApprove
    \/ AdminUserReject

SpecAccounts == InitAccounts /\ [][NextAccounts]_vars

\* One patient with consultations, studies, control reminders, review
\* requests, comments, a screening and follow-ups, deleted by the
\* administrator or by another user, with any statement of the deletion failing
DeleteForms ==
    {[date |-> <<"d">>,
      study_groups |-> {"func"},
      control_enabled |-> "on",
      control_date |-> <<"d", "1">>,
      control_extra_emails |-> NoneText,
      review_recipients |-> <<<<"2">>>>,
      lists |-> ListsOf(func, func, func),
      study_description |-> NoDescriptions] :
        func \in {r \in RowLists : Len(r.types) <= 1 /\ Len(r.dates) <= 1}}

DeleteFollowupForms ==
    {[fu_study_type |-> <<"t">>, fu_study_date |-> <<"d">>,
      fu_next_control_date |-> <<"d", "1">>, fu_file |-> "none"]}

InitDelete ==
    /\ studies = <<>>
    /\ consultations = <<>>
    /\ reviews = <<>>
    /\ comments = <<>>
    /\ controls = <<>>
    /\ followups = <<>>
    /\ screening = <<>>
    /\ patient_email = NoneText
    /\ patients = <<RegisteredPatient>>
    /\ threads = NoThreads
    /\ db_init = DbInitialised
    /\ user_table = ApprovedUsers
    /\ sessions = NoSessions
    /\ resp = NoResp

DeleteConsultationNew ==
    /\ Len(consultations) < MaxConsultations
    /\ \E form \in DeleteForms : consultation_new(1, 1, form)
    /\ Len(studies') <= MaxStudyRows

DeleteStudyNew ==
    /\ 1 \in Live(patients)
    /\ Len(studies) < MaxStudyRows
    /\ Len(reviews) < MaxReviews
    /\ study_new(1, <<>>)

DeleteReviewComment ==
    /\ 1 \in Live(patients)
    /\ Len(comments) < 1
    /\ \E review_id \in DOMAIN reviews : review_comment(2, review_id)

DeleteAddFollowup ==
    /\ 1 \in Live(patients)
    /\ Len(followups) < 1
    /\ \E form \in DeleteFollowupForms : patient_screening_add_followup(1, form)

PatientDelete ==
    \E u \in {1, 2}, patient_id \in 1..MaxPatients, fail_step \in 0..DeleteSteps :
        patient_delete(u, patient_id, fail_step)

NextDelete ==
    \/ DeleteConsultationNew
    \/ DeleteStudyNew
    \/ DeleteReviewComment
    \/ DeleteAddFollowup
    \/ PatientDelete

SpecDelete == InitDelete /\ [][NextDelete]_vars

\* ------------------------------------------------------------------------
\* Properties of the review workflow
\* ------------------------------------------------------------------------
\* C1: a review_resolve request by a user whose id is not in the request's
\* recipient list, its creator included, is rejected and leaves the review
\* requests as they were; a request by a listed recipient leaves the status
\* resolved, and every step in which a status becomes resolved is such a
\* request.
C1_ResolveOnlyByListedRecipient ==
    [][/\ resp'.op = "review_resolve" =>
            LET review == reviews[resp'.result]
            IN  IF resp'.user \in Range(RecipientIntsOf(review.recipients))
                THEN /\ resp'.outcome = "ok"
                     /\ reviews'[resp'.result].status = "resolved"
                ELSE /\ resp'.outcome = "forbidden"
                     /\ reviews' = reviews
       /\ \A id \in DOMAIN reviews' :
             (/\ reviews'[id].status = "resolved"
              /\ (id \in DOMAIN reviews => reviews[id].status # "resolved"))
             => /\ id \in DOMAIN reviews
                /\ resp'.op = "review_resolve"
                /\ resp'.result = id
                /\ resp'.user \in Range(RecipientIntsOf(reviews[id].recipients))
      ]_vars

\* the creator of a request, not among its recipients, was refused
C1_CreatorRefused ==
    /\ resp.op = "review_resolve"
    /\ resp.outcome = "forbidden"
    /\ resp.user = reviews[resp.result].created_by_id

\* C2 as stated: the only status changes are pending to in_progress by
\* review_progress and in_progress to resolved by review_resolve.
C2_OnlyForwardOneStep ==
    [][\A id \in DOMAIN reviews :
          reviews'[id].status # reviews[id].status
          => \/ /\ reviews[id].status = "pending"
                /\ reviews'[id].status = "in_progress"
                /\ resp'.op = "review_progress"
             \/ /\ reviews[id].status = "in_progress"
                /\ reviews'[id].status = "resolved"
                /\ resp'.op = "review_resolve"
      ]_vars

\* C2: a permitted review_progress request leaves the status in_progress
\* and a permitted review_resolve request leaves it resolved, whatever the
\* status was; a status changes in no other way, so that it never becomes
\* pending again.
C2_StatusSetByProgressAndResolve ==
    [][/\ (resp'.op = "review_progress" /\ resp'.outcome = "ok")
            => reviews'[resp'.result].status = "in_progress"
       /\ (resp'.op = "review_resolve" /\ resp'.outcome = "ok")
            => reviews'[resp'.result].status = "resolved"
       /\ \A id \in DOMAIN reviews :
             reviews'[id].status # reviews[id].status
             => /\ resp'.result = id
                /\ resp'.outcome = "ok"
                /\ \/ /\ resp'.op = "review_progress"
                      /\ reviews'[id].status = "in_progress"
                   \/ /\ resp'.op = "review_resolve"
                      /\ reviews'[id].status = "resolved"
      ]_vars

\* a request that was resolved has been put back in progress
C2_ResolvedReopened ==
    /\ resp.op = "review_progress"
    /\ resp.outcome = "ok"
    /\ reviews[resp.result].status = "in_progress"
    /\ reviews[resp.result].resolved_at # NULL

\* C3: once the status of a review request is not pending, no request
\* (progress, resolve, comment, comment edit, comment delete) makes it
\* pending again.
C3_NeverBackToPending ==
    [][\A id \in DOMAIN reviews :
          reviews[id].status # "pending" => reviews'[id].status # "pending"
      ]_vars

\* a comment was deleted on a request that had been resolved and reopened
C3_CommentDeletedAfterReopen ==
    /\ resp.op = "review_comment_delete"
    /\ resp.outcome = "ok"
    /\ \E id \in DOMAIN reviews :
          reviews[id].status = "in_progress" /\ reviews[id].resolved_at # NULL

\* C4: for a user who is neither a listed recipient nor the creator of the
\* review request, review_progress leaves the review requests as they were
\* and review_comment leaves the comments as they were, both refused; for a
\* listed recipient or the creator review_progress takes effect and
\* review_comment is not refused.
C4_ProgressAndCommentByRecipientOrCreator ==
    [][(resp'.op \in {"review_progress", "review_comment"}) =>
          LET review == reviews[resp'.result]
              entitled == \/ resp'.user \in Range(RecipientIntsOf(review.recipients))
                          \/ resp'.user = review.created_by_id
          IN  IF ~entitled
              THEN /\ resp'.outcome = "forbidden"
                   /\ reviews' = reviews
                   /\ comments' = comments
              ELSE /\ resp'.outcome # "forbidden"
                   /\ resp'.op = "review_progress"
                        => reviews'[resp'.result].status = "in_progress"
                   /\ (resp'.op = "review_comment" /\ resp'.outcome = "ok")
                        => Len(comments') = Len(comments) + 1
      ]_vars

\* a user who is neither recipient nor creator was refused a comment on a
\* request that a permitted user had put in progress
C4_OutsiderCommentRefused ==
    /\ resp.op = "review_comment"
    /\ resp.outcome = "forbidden"
    /\ reviews[resp.result].status = "in_progress"
    /\ resp.user # reviews[resp.result].created_by_id

\* C5: create_review_request called with an empty recipient list returns
\* no record, adds no review request, writes no audit entry and sends no
\* e-mail; every review request that is added holds a non-empty list of
\* recipient ids without duplicates.
C5_NoRequestWithoutRecipients ==
    [][/\ (resp'.op = "create_review_request" /\ resp'.recipient_ids = <<>>)
            => /\ resp'.result = NULL
               /\ resp'.outcome = "ok"
               /\ reviews' = reviews
               /\ resp'.logged = <<>>
               /\ resp'.mails = <<>>
       /\ \A id \in DOMAIN reviews' \ DOMAIN reviews :
             LET strs == _deserialize_list(reviews'[id].recipients)
                 ids == RecipientIntsOf(reviews'[id].recipients)
             IN  /\ strs # <<>>
                 /\ Len(ids) = Len(strs)
                 /\ NoDup(ids)
      ]_vars

\* create_review_request was called with an empty list after a request had
\* been persisted
C5_EmptyListCall ==
    /\ resp.op = "create_review_request"
    /\ resp.recipient_ids = <<>>
    /\ reviews # <<>>

\* C6 as stated: when create_review_request has persisted a request, its
\* notification is addressed to the addresses of the recipients followed by
\* the address of the creator, each address once.
C6_RecipientsThenCreator ==
    (resp.op \in {"study_new", "create_review_request"}
       /\ resp.outcome = "ok" /\ resp.result # NULL)
    => LET rr == reviews[resp.result]
           ids == RecipientIntsOf(rr.recipients)
           known == SelectSeq(ids, LAMBDA i : i \in Users)
           addresses == [k \in DOMAIN known |-> UserEmail(known[k])]
       IN  /\ Len(resp.mails) = 1
           /\ resp.mails[1].to
                = _collect_emails(<<addresses, <<UserEmail(rr.created_by_id)>>>>)

\* C6: when create_review_request has persisted a request, its notification
\* is addressed to the addresses of those recipients that are users, each
\* address once and no other address (the creator's only when the creator
\* is a recipient); no notification is attempted when no recipient is a
\* user.
C6_RecipientsThatAreUsersOnly ==
    (resp.op \in {"study_new", "create_review_request"}
       /\ resp.outcome = "ok" /\ resp.result # NULL)
    => LET rr == reviews[resp.result]
           ids == RecipientIntsOf(rr.recipients)
           expected == {UserEmail(u) : u \in Range(ids) \cap Users}
       IN  IF expected = {}
           THEN resp.mails = <<>>
           ELSE /\ Len(resp.mails) = 1
                /\ Range(resp.mails[1].to) = expected
                /\ NoDup(resp.mails[1].to)

\* a request with two recipients was persisted by a third user, and the
\* notification went to the two recipients only
C6_CreatorNotAddressed ==
    /\ resp.op = "study_new"
    /\ resp.outcome = "ok"
    /\ resp.result # NULL
    /\ Len(resp.mails) = 1
    /\ Len(resp.mails[1].to) = 2
    /\ UserEmail(reviews[resp.result].created_by_id) \notin Range(resp.mails[1].to)

\* ------------------------------------------------------------------------
\* Properties of the notifications
\* ------------------------------------------------------------------------
\* C7 as stated: whatever way the delivery of a notification fails, the
\* request that triggered it (a new review request, a review comment, a new
\* control reminder, a new screening follow-up) persists its record and ends
\* without an error.
C7_MailFailureNeverPropagates ==
    (\E i \in DOMAIN resp.mails : resp.mails[i].result # "sent")
    => resp.outcome = "ok"

\* ------------------------------------------------------------------------
\* Properties of control reminders and screening follow-ups
\* ------------------------------------------------------------------------
\* C8: a complete or progress request on a control reminder or a screening
\* follow-up that has a creator, made by another user, is refused and leaves
\* the rows as they were; made by the creator, or by any user when the row
\* has no creator, it takes effect.
C8_OnlyCreatorCompletesOrProgresses ==
    [][/\ (resp'.op \in {"control_reminder_complete", "control_reminder_progress"})
            => LET cr == controls[resp'.result]
               IN  IF cr.created_by_id # NULL /\ cr.created_by_id # resp'.user
                   THEN /\ resp'.outcome = "forbidden"
                        /\ controls' = controls
                   ELSE /\ resp'.outcome = "ok"
                        /\ controls'[resp'.result].status
                             = IF resp'.op = "control_reminder_complete"
                               THEN "done" ELSE "in_progress"
       /\ (resp'.op \in {"screening_followup_complete", "screening_followup_progress"})
            => LET fu == followups[resp'.result]
               IN  IF fu.created_by_id # NULL /\ fu.created_by_id # resp'.user
                   THEN /\ resp'.outcome = "forbidden"
                        /\ followups' = followups
                   ELSE /\ resp'.outcome = "ok"
                        /\ followups'[resp'.result].status
                             = IF resp'.op = "screening_followup_complete"
                               THEN "done" ELSE "in_progress"
      ]_vars

\* a user other than the creator was refused on a completed follow-up
C8_OtherUserRefused ==
    /\ resp.op = "screening_followup_progress"
    /\ resp.outcome = "forbidden"
    /\ followups[resp.result].created_by_id \notin {NULL, resp.user}
    /\ followups[resp.result].status = "done"

\* C9: after a permitted complete request the control reminder, or the
\* screening follow-up, has status done, completed true and a completed_at
\* that is not null.
C9_CompleteMarksDone ==
    /\ (resp.op = "control_reminder_complete" /\ resp.outcome = "ok")
         => /\ controls[resp.result].status = "done"
            /\ controls[resp.result].completed = TRUE
            /\ controls[resp.result].completed_at # NULL
    /\ (resp.op = "screening_followup_complete" /\ resp.outcome = "ok")
         => /\ followups[resp.result].status = "done"
            /\ followups[resp.result].completed = TRUE
            /\ followups[resp.result].completed_at # NULL

\* a control reminder was completed by its creator
C9_ReminderCompleted ==
    /\ resp.op = "control_reminder_complete"
    /\ resp.outcome = "ok"
    /\ controls[resp.result].created_by_id = resp.user

\* C10: in every state, for every control reminder and every screening
\* follow-up, completed is true exactly when status is done.
C10_CompletedMirrorsStatus ==
    /\ \A i \in DOMAIN controls :
          controls[i].completed = TRUE <=> controls[i].status = "done"
    /\ \A i \in DOMAIN followups :
          followups[i].completed = TRUE <=> followups[i].status = "done"

\* a control reminder that was completed is in progress again
C10_ReopenedAfterDone ==
    \E i \in DOMAIN controls :
        /\ controls[i].status = "in_progress"
        /\ controls[i].completed = FALSE
        /\ controls[i].completed_at # NULL

\* ------------------------------------------------------------------------
\* Properties of the patient register
\* ------------------------------------------------------------------------
\* C11: whatever patient_new and patient_edit requests were made, one after
\* the other or at the same time, no two rows of patients hold the same DNI
\* unless it is null.
C11_DniUnique ==
    \A i, j \in DOMAIN patients :
        (i # j /\ patients[i].dni # NoneText) => patients[i].dni # patients[j].dni

\* an insert was refused by the constraint: two requests with the same DNI
\* had both passed the search before either inserted
C11_ConcurrentInsertRefused ==
    /\ resp.op = "patient_new"
    /\ resp.outcome = "error"
    /\ Len(patients) = 1
    /\ patients[1].dni = StripOrNone(resp.form.dni)

\* C12: a patient_new request that carries every required field and the DNI
\* of a patient that exists when the table is searched adds no row, changes
\* no row and redirects to the record of that patient.
C12_DuplicateDniRedirects ==
    [][\A t \in Threads, form \in DniForms :
          (/\ patient_new_check(t, 1, form)
           /\ ~MissingFields(form)
           /\ \E id \in DOMAIN patients : patients[id].dni = Strip(form.dni))
          => /\ patients' = patients
             /\ threads' = threads
             /\ resp'.op = "patient_new"
             /\ resp'.outcome = "duplicate"
             /\ resp'.result \in DOMAIN patients
             /\ patients[resp'.result].dni = Strip(form.dni)
      ]_vars

\* a request with the DNI of an existing patient, written with a trailing
\* blank, was redirected to that patient
C12_DuplicateRedirected ==
    /\ resp.op = "patient_new"
    /\ resp.outcome = "duplicate"
    /\ resp.form.dni = <<"7", " ">>
    /\ patients[resp.result].dni = <<"7">>

\* ------------------------------------------------------------------------
\* Properties of the first requests of a process
\* ------------------------------------------------------------------------
\* C14: however the first requests of a process interleave, the hook calls
\* create_tables_and_admin at most once, and a request is at its handler
\* only when that call has been made and has ended.
C14_InitOnceBeforeHandlers ==
    /\ db_init.runs <= 1
    /\ \A t \in Threads :
          threads[t].pc = "handler" => (db_init.runs = 1 /\ db_init.finished = 1)

\* after a set-up that raised, one request is at its handler while another,
\* which had read the flag before it was set, holds the lock and is about to
\* look at the flag again
C14_SecondThreadRechecks ==
    \E t, o \in Threads :
        /\ threads[t].pc = "handler"
        /\ threads[o].pc = "locked"
        /\ db_init.failed

\* ------------------------------------------------------------------------
\* Properties of the screening page
\* ------------------------------------------------------------------------
\* C13 as stated: in every state, also after two requests have opened the
\* screening page of a patient for the first time at the same moment, the
\* patient has at most one Screening row.
C13_OneScreeningPerPatient == Len(screening) <= 1

\* ------------------------------------------------------------------------
\* Properties of the daily reminders
\* ------------------------------------------------------------------------
\* C15 as stated: send_reminders_for_date(d) sends one e-mail for each
\* record that is due on d and has an address to write to (a Screening
\* whose next_control_date is d, a ScreeningFollowup that is not completed
\* and whose next_control_date is d, a ControlReminder that is not completed
\* and whose control_date is d) and no other e-mail.  An address exists when
\* the patient has one, the record carries an extra one, or the record or
\* the patient has a creator.
C15_OneMailPerDueRecord ==
    resp.op = "send_reminders_for_date"
    => LET d == resp.target_date
           has_address(extra, created_by_id) ==
               \/ ~Falsy(patient_email)
               \/ ~Falsy(extra)
               \/ created_by_id # NULL
               \/ patients[1].created_by_id # NULL
           due_screenings ==
               {i \in DOMAIN screening :
                   /\ screening[i].next_control_date = d
                   /\ has_address(screening[i].extra_email, NULL)}
           due_followups ==
               {i \in DOMAIN followups :
                   /\ followups[i].next_control_date = d
                   /\ ~followups[i].completed
                   /\ has_address(screening[followups[i].screening_id].extra_email,
                                  followups[i].created_by_id)}
           due_controls ==
               {i \in DOMAIN controls :
                   /\ controls[i].control_date = d
                   /\ ~controls[i].completed
                   /\ has_address(controls[i].extra_emails, controls[i].created_by_id)}
       IN  Len(resp.mails) = Cardinality(due_screenings) + Cardinality(due_followups)
                             + Cardinality(due_controls)

\* ------------------------------------------------------------------------
\* Properties of the patient form
\* ------------------------------------------------------------------------
\* C16 as stated: when a patient has been populated from a form and the
\* stored smoking_cigarettes_per_day and smoking_years are both not null,
\* the stored smoking_pack_years is (cigarettes / 20) x years rounded to two
\* decimals, whatever pack-years value was submitted.
C16_PackYearsFromCounts ==
    (resp.op = "patient_edit" /\ resp.outcome = "ok")
    => LET p == patients[resp.result]
       IN  (p.smoking_cigarettes_per_day # NoValue /\ p.smoking_years # NoValue)
           => /\ p.smoking_pack_years # NoValue
              /\ 100 % p.smoking_pack_years[1].den = 0
              /\ LET cigs == p.smoking_cigarettes_per_day[1]
                     years == p.smoking_years[1]
                     q == (p.smoking_pack_years[1].num * 100)
                          \div p.smoking_pack_years[1].den
                     stored == q * 20 * years.den
                     exact == 100 * cigs * years.num
                 IN  2 * (IF stored >= exact THEN stored - exact ELSE exact - stored)
                       <= 20 * years.den

\* C17 as stated: after a patient has been populated from a form, bmi is
\* weight / (height / 100) squared, rounded to two decimals, when the
\* submitted weight and height are both numbers above zero, and null in
\* every other case.
C17_BmiOnlyForPositive ==
    (resp.op = "patient_edit" /\ resp.outcome = "ok")
    => LET p == patients[resp.result]
           w == PyFloat(resp.form.weight_kg)
           h == PyFloat(resp.form.height_cm)
           positive == /\ ~Falsy(resp.form.weight_kg) /\ w.ok /\ w.val.num > 0
                       /\ ~Falsy(resp.form.height_cm) /\ h.ok /\ h.val.num > 0
       IN  IF positive
           THEN /\ p.bmi # NoValue
                /\ 100 % p.bmi[1].den = 0
                /\ LET q == (p.bmi[1].num * 100) \div p.bmi[1].den
                       stored == q * w.val.den * h.val.num * h.val.num
                       exact == w.val.num * h.val.den * h.val.den * 1000000
                       half == w.val.den * h.val.num * h.val.num
                   IN  2 * (IF stored >= exact THEN stored - exact ELSE exact - stored)
                         <= half
           ELSE p.bmi = NoValue

\* C18: when a patient has been populated from a form whose never-smoked
\* box is checked, the row holds smoking_current false, smoking_previous
\* false, smoking_pack_years 0, smoking_years null and
\* smoking_cigarettes_per_day null.
C18_NeverSmokedClears ==
    (/\ resp.op = "patient_edit"
     /\ resp.outcome = "ok"
     /\ resp.form.smoking_never \in {<<"o", "n">>, <<"O", "N">>})
    => LET p == patients[resp.result]
       IN  /\ p.smoking_current = <<FALSE>>
           /\ p.smoking_previous = <<FALSE>>
           /\ p.smoking_pack_years = <<[num |-> 0, den |-> 1]>>
           /\ p.smoking_years = <<>>
           /\ p.smoking_cigarettes_per_day = <<>>

\* the never-smoked box was checked on a form that also carried counts and
\* a pack-years value
C18_NeverSmokedWithCounts ==
    /\ resp.op = "patient_edit"
    /\ resp.outcome = "ok"
    /\ resp.form.smoking_never = <<"O", "N">>
    /\ resp.form.smoking_current = <<"o", "n">>
    /\ resp.form.smoking_cigarettes_per_day = <<"2", "0">>
    /\ resp.form.smoking_years = <<"2", "0">>
    /\ resp.form.smoking_pack_years = <<"2", "5">>

\* C19: the eligibility shown on the screening page is true exactly when
\* the patient's age is known and at least 50, the patient smokes or has
\* smoked, and the pack-years are known and at least 20; the list of reasons
\* has three entries.
C19_EligibilityRule ==
    (resp.op = "patient_screening" /\ "eligibility" \in DOMAIN resp)
    => LET p == patients[resp.result]
       IN  /\ resp.eligibility.met
                <=> /\ p.age # <<>> /\ p.age[1] >= 50
                    /\ (p.smoking_current = <<TRUE>> \/ p.smoking_previous = <<TRUE>>)
                    /\ p.smoking_pack_years # <<>>
                    /\ p.smoking_pack_years[1].num >= 20 * p.smoking_pack_years[1].den
           /\ Len(resp.eligibility.reasons) = 3

\* the page of a former smoker of exactly 50 years with exactly 20
\* pack-years was shown, and the patient is eligible
C19_EligibleAtTheThresholds ==
    /\ resp.op = "patient_screening"
    /\ "eligibility" \in DOMAIN resp
    /\ resp.eligibility.met
    /\ patients[resp.result].age = <<50>>
    /\ patients[resp.result].smoking_current = <<FALSE>>
    /\ patients[resp.result].smoking_pack_years = <<[num |-> 20, den |-> 1]>>

\* C20 as stated: a non-empty list of strings that is stored with
\* _serialize_list is read back by _deserialize_list as the same list.
C20_RoundTrip ==
    (/\ resp.op = "patient_edit"
     /\ resp.outcome = "ok"
     /\ resp.form.respiratory_conditions # <<>>)
    => _deserialize_list(patients[resp.result].respiratory_conditions)
         = resp.form.respiratory_conditions

\* C20: a non-empty list of strings that is stored with _serialize_list is
\* read back by _deserialize_list as the list of its strings that are not
\* empty, in their order; so it is read back as the same list exactly when
\* none of its strings is empty.
C20_RoundTripOfNonEmptyStrings ==
    (/\ resp.op = "patient_edit"
     /\ resp.outcome = "ok"
     /\ resp.form.respiratory_conditions # <<>>)
    => LET s == resp.form.respiratory_conditions
           back == _deserialize_list(patients[resp.result].respiratory_conditions)
       IN  /\ back = SelectSeq(s, LAMBDA e : e # <<>>)
           /\ (back = s) <=> (\A i \in DOMAIN s : s[i] # <<>>)

\* a list with a quotation mark, a backslash and a bracket in its strings
\* was stored
C20_QuotedStringsStored ==
    /\ resp.op = "patient_edit"
    /\ resp.outcome = "ok"
    /\ resp.form.respiratory_conditions = <<<<"q", "\"">>, <<"\\", "]">>>>

\* ------------------------------------------------------------------------
\* Properties of the stamps of a patient
\* ------------------------------------------------------------------------
\* C21: whatever registrations and edits are submitted, by whatever users, a
\* created_at and a created_by of a patient that are set stay as they are;
\* a registration sets them to its time and its user; every registration and
\* every edit that is committed sets updated_at and updated_by to its time
\* and its user.
C21_CreationStampsKept ==
    [][/\ \A id \in DOMAIN patients :
             /\ id \in DOMAIN patients'
             /\ patients[id].created_at # NULL
                  => patients'[id].created_at = patients[id].created_at
             /\ patients[id].created_by_id # NULL
                  => patients'[id].created_by_id = patients[id].created_by_id
       /\ (resp'.op \in {"patient_new", "patient_edit"} /\ resp'.outcome = "ok")
            => /\ patients'[resp'.result].updated_at = resp'.now
               /\ patients'[resp'.result].updated_by_id = resp'.user
       /\ (resp'.op = "patient_new" /\ resp'.outcome = "ok")
            => /\ resp'.result \notin DOMAIN patients
               /\ patients'[resp'.result].created_at = resp'.now
               /\ patients'[resp'.result].created_by_id = resp'.user
      ]_vars

\* a patient was edited by a user who had not registered it, at another time
C21_EditedByAnotherUserLater ==
    /\ resp.op = "patient_edit"
    /\ resp.outcome = "ok"
    /\ patients[resp.result].created_by_id \notin {NULL, resp.user}
    /\ patients[resp.result].created_at \notin {NULL, resp.now}
    /\ patients[resp.result].updated_by_id = resp.user

\* ------------------------------------------------------------------------
\* Properties of add_review_comment
\* ------------------------------------------------------------------------
\* the message is missing, empty or made of blanks only
BlankMessage(message) ==
    message = NoneText \/ \A i \in DOMAIN message : message[i] = " "

\* C22: add_review_comment called with a missing, empty or blank message
\* returns no comment, writes no audit entry and sends no notification, and
\* the request that called it leaves the review requests and the comments
\* as they were.
C22_BlankMessageAddsNothing ==
    [][(/\ resp'.op = "review_comment"
        /\ resp'.outcome # "forbidden"
        /\ BlankMessage(resp'.message))
       => /\ resp'.outcome = "invalid"
          /\ resp'.logged = <<>>
          /\ resp'.mails = <<>>
          /\ comments' = comments
          /\ reviews' = reviews
          /\ \A env \in MailEnvs :
                add_review_comment(comments, reviews[resp'.result], resp'.result,
                                   resp'.user, resp'.message, env, <<>>)
                  = [rows |-> comments, comment |-> NULL, logged |-> <<>>,
                     mails |-> <<>>, raised |-> FALSE]
      ]_vars

\* a message of blanks was submitted on a review request that has a comment
C22_BlankAfterAComment ==
    /\ resp.op = "review_comment"
    /\ resp.outcome = "invalid"
    /\ resp.message = <<" ", " ">>
    /\ comments # <<>>

\* ------------------------------------------------------------------------
\* Properties of the completion time of controls
\* ------------------------------------------------------------------------
\* C28: in every state, for every control reminder and every screening
\* follow-up, completed_at is set exactly when status is done.
C28_CompletedAtMirrorsStatus ==
    /\ \A i \in DOMAIN controls :
          controls[i].completed_at # NULL <=> controls[i].status = "done"
    /\ \A i \in DOMAIN followups :
          followups[i].completed_at # NULL <=> followups[i].status = "done"

\* ------------------------------------------------------------------------
\* Properties of a set-up that raises
\* ------------------------------------------------------------------------
\* C25: when create_tables_and_admin has raised in the hook, the flag is set
\* as soon as the hook has passed its finally clause, the call is made no
\* second time, every request ends only by running its handler, and a
\* request that arrives once the flag is set goes straight to its handler.
C25_FailedSetUpIsFinal ==
    [][/\ db_init'.failed
          => /\ db_init'.runs = 1
             /\ (\A t \in Threads : threads'[t].pc \notin {"running", "finally"})
                  => db_init'.done
       /\ (db_init.failed /\ db_init.done) => (db_init'.done /\ db_init'.runs = 1)
       /\ \A t \in Threads :
             /\ (threads[t].pc # "idle" /\ threads'[t].pc = "idle")
                  => threads[t].pc = "handler"
             /\ (db_init.done /\ threads[t].pc = "idle" /\ threads'[t].pc # "idle")
                  => threads'[t].pc = "handler"
      ]_vars

\* after a set-up that raised, the request that made the call and a later
\* request are both at their handlers
C25_BothAtHandlersAfterFailure ==
    /\ db_init.failed
    /\ db_init.done
    /\ db_init.lock = NULL
    /\ \A t \in Threads : threads[t].pc = "handler"

\* ------------------------------------------------------------------------
\* Properties of consultation_new
\* ------------------------------------------------------------------------
\* thread t commits the consultation_new request it serves
CommitsConsultation(t) ==
    /\ threads[t].pc = "commit"
    /\ threads[t].op = "consultation_new"
    /\ threads'[t].pc = "idle"

\* the positions of the rows of group g that hold a type or a date, blanks
\* not counting
GivenRows(form, g) ==
    LET types == _get_list(form, "study_type", g)
        dates == _get_list(form, "study_date", g)
    IN  {i \in 1..(Len(types) + Len(dates)) :
            \/ i <= Len(types) /\ types[i] # <<>>
            \/ i <= Len(dates) /\ dates[i] # <<>>}

\* what the studies of group g are linked to and described by
ExpectedStudies(form, g, consultation_id, patient_id) ==
    IF g \in form.study_groups
    THEN [i \in 1..Cardinality(GivenRows(form, g)) |->
             [consultation_id |-> consultation_id, patient_id |-> patient_id,
              description |-> StripOrNone(form.study_description[g])]]
    ELSE <<>>

StudyLinks(rows) ==
    [i \in DOMAIN rows |->
        [consultation_id |-> rows[i].consultation_id, patient_id |-> rows[i].patient_id,
         description |-> rows[i].description]]

\* C23: a consultation_new submission that creates a consultation adds, for
\* each of the groups func, img and inv that is listed in study_groups, one
\* Study for each submitted row of the group whose type or date is not
\* empty, linked to the new consultation and to its patient and carrying
\* the one description of the group, and adds no Study for a group that is
\* not listed; the studies that existed stay, and a submission that creates
\* no consultation adds no Study.
C23_OneStudyPerGivenRow ==
    [][/\ \A t \in Threads :
             CommitsConsultation(t)
             => LET cid == Len(consultations) + 1
                    pid == consultations'[cid].patient_id
                IN  /\ consultations' = Append(consultations, consultations'[cid])
                    /\ Len(studies') >= Len(studies)
                    /\ SubSeq(studies', 1, Len(studies)) = studies
                    /\ StudyLinks(SubSeq(studies', Len(studies) + 1, Len(studies')))
                         = ExpectedStudies(threads[t].form, "func", cid, pid)
                             \o ExpectedStudies(threads[t].form, "img", cid, pid)
                             \o ExpectedStudies(threads[t].form, "inv", cid, pid)
       /\ (\A t \in Threads : threads'[t].pc = "idle" => threads[t].pc = "idle")
            => studies' = studies
      ]_vars

\* a consultation was created with one study of the group func and two of
\* the group inv, each with the description of its group
C23_StudiesOfTwoGroups ==
    /\ resp.op = "consultation_new"
    /\ resp.outcome = "ok"
    /\ Len(resp.result.studies) = 3
    /\ \A i \in 1..3 : studies[resp.result.studies[i]].consultation_id
                          = resp.result.consultation
    /\ studies[resp.result.studies[1]].description = <<"x">>
    /\ studies[resp.result.studies[2]].description = NoneText

\* C24: a consultation_new submission that creates a consultation creates
\* one ControlReminder, pending and linked to the new consultation, when
\* control_enabled is checked, a control date is given and func or img is
\* among the study groups, and creates none in every other case; a
\* submission that creates no consultation creates none.
C24_ReminderExactlyWhenRequested ==
    [][/\ \A t \in Threads :
             CommitsConsultation(t)
             => IF /\ threads[t].form.control_enabled \in {"on", "true", "1"}
                   /\ threads[t].form.control_date # NoneText
                   /\ Strip(threads[t].form.control_date) # <<>>
                   /\ {"func", "img"} \cap threads[t].form.study_groups # {}
                THEN /\ Len(controls') = Len(controls) + 1
                     /\ SubSeq(controls', 1, Len(controls)) = controls
                     /\ controls'[Len(controls')].status = "pending"
                     /\ controls'[Len(controls')].consultation_id = Len(consultations')
                     /\ Len(consultations') = Len(consultations) + 1
                ELSE controls' = controls
       /\ (\A t \in Threads : ~CommitsConsultation(t)) => controls' = controls
      ]_vars

\* a consultation without studies was created with a reminder
C24_ReminderCreated ==
    /\ resp.op = "consultation_new"
    /\ resp.outcome = "ok"
    /\ resp.result.studies = <<>>
    /\ resp.result.control \in DOMAIN controls
    /\ controls[resp.result.control].status = "pending"
    /\ controls[resp.result.control].consultation_id = resp.result.consultation

\* C27 as stated: study_new and consultation_new send no e-mail about a
\* record they create before they have committed it, so a request that has
\* not yet committed has sent none.
C27_MailOnlyAfterCommit ==
    \A t \in Threads :
        threads[t].pc = "commit"
        => \A i \in DOMAIN threads[t].r.mails : threads[t].r.mails[i].result # "sent"

\* ------------------------------------------------------------------------
\* Properties of the references between rows
\* ------------------------------------------------------------------------
\* C30 as stated: whatever consultation_new, consultation_edit,
\* consultation_delete and study_delete requests were made, every
\* consultation_id of a control reminder, a study or a review request that
\* is not null is the id of a consultation that exists, and every study_id
\* of a review request that is not null is the id of a study that exists.
C30_ReferencesExist ==
    /\ \A i \in Live(controls) :
          controls[i].consultation_id # NULL
          => controls[i].consultation_id \in Live(consultations)
    /\ \A i \in Live(studies) :
          studies[i].consultation_id # NULL
          => studies[i].consultation_id \in Live(consultations)
    /\ \A i \in Live(reviews) :
          /\ reviews[i].consultation_id # NULL
             => reviews[i].consultation_id \in Live(consultations)
          /\ reviews[i].study_id # NULL => reviews[i].study_id \in Live(studies)

\* C29: every login-required operation that runs is performed by a user whose
\* status is approved when the request is made, and login succeeds only for
\* an approved user; so the session of a user the administrator has rejected
\* performs no further login-required operation
C29_OnlyApprovedUsersAct ==
    [][/\ (resp'.op = "login" /\ resp'.outcome = "ok")
            => user_table[resp'.user].status = "approved"
       /\ (resp'.op \in LoginRequiredOps /\ resp'.outcome # "login_redirect")
            => user_table[resp'.user].status = "approved"]_vars

====
